---- MODULE Spec2Model ----
(***************************************************************************)
(* Model of the "Argue with AI (Avatar)" pipeline application:             *)
(*   whisper_transcribe.py  WhisperTranscriber                             *)
(*   gpt_feedback.py        GPTFeedbackGenerator / ArgumentFeedback        *)
(*   avatar_gen.py          HeyGenAvatarGenerator                          *)
(*   scoring.py             ArgumentScorer                                 *)
(*                                                                         *)
(* Strings the code inspects character by character (transcript text,      *)
(* feedback comment, emojis) are sequences of one-character strings.       *)
(* Strings the code only passes around (error messages, step labels,       *)
(* identifiers) are TLA+ strings.  Scores are in hundredths (820 = 8.2).   *)
(***************************************************************************)
EXTENDS Integers, Sequences, FiniteSets, TLC

VARIABLES
    \* ---- one run of ArgumentScorer.process_audio_file / process_audio_blob
    scorer,     \* configuration fixed by ArgumentScorer.__init__
    pc,         \* position of the running call
    kind,       \* "file" (process_audio_file) or "blob" (process_audio_blob)
    result,     \* the Pipeline Result dictionary being filled
    tr,         \* the transcriber's local result dictionary
    exc,        \* text of the exception in flight / last caught (None if none)
    tmp,        \* temporary file of transcribe_audio_blob: [name, path]
    disk,       \* names of the temporary files that exist on disk
    log,        \* client calls of the running call, in order
    ncalls,     \* number of pipeline calls started so far
    \* ---- a direct call of WhisperTranscriber.is_transcription_valid
    vIn,        \* [tr, min_length]
    vDone,      \* the call has returned
    vOut,       \* its return value
    \* ---- a direct call of GPTFeedbackGenerator.generate_(custom_)feedback
    fPc,        \* "idle", "pending" (remote call answered), "returned"
    fOp,        \* "generate_feedback" or "generate_custom_feedback"
    fIn,        \* outcome of the remote chat-completion call
    fOut,       \* the returned Feedback Result
    \* ---- direct calls of a HeyGenAvatarGenerator / get_avatar_video_status
    gen,        \* the generator, as HeyGenAvatarGenerator.__init__ leaves it
    aPc,        \* "idle", "loop" / "sleep" (inside wait_for_completion), "returned"
    aOp,        \* the running or last call: its name and arguments
    aOut,       \* its return value
    aNet,       \* HTTP requests the call has sent, in order
    aSleeps,    \* durations of the time.sleep calls of the call, in order
    aPoll,      \* wait_for_completion: status_result of the last poll
    aStart,     \* wait_for_completion: start_time
    now,        \* time.time(), in clock ticks
    aCalls,     \* number of client calls started so far
    \* ---- get_processing_summary / save_results on a returned Pipeline Result
    summary,    \* outcome of get_processing_summary, `of` the call it was taken of
    saved,      \* outcome of save_results, `of` the call whose result was saved
    fs,         \* the file system: directories and files (path -> content)
    \* ---- one browser session of the Streamlit application (app.py)
    env,        \* the process environment: OPENAI_API_KEY, HEYGEN_API_KEY, HEYGEN_AVATAR_ID
    session,    \* st.session_state (NoneRec before the first script run)
    view,       \* what the last script run rendered: sections and widgets
    upload,     \* the file held by the file_uploader widget (None if none)
    appCalls,   \* calls the session made into the scorer, in order
    \* ---- two calls of process_audio_blob under way on one scorer
    shScorer,   \* the ArgumentScorer both calls use
    shDisk,     \* the temporary directory both calls use
    calls,      \* per call: its arguments and remote answers, its local variables
    \* ---- one browser session of the prototype (src/app.py)
    character,  \* value of the character selectbox
    questions,  \* st.session_state["selected_question_<character>"], None if not set
    page        \* what the last script run rendered

pipeVars == <<scorer, pc, kind, result, tr, exc, tmp, disk, log, ncalls>>
validVars == <<vIn, vDone, vOut>>
feedbackVars == <<fPc, fOp, fIn, fOut>>
avatarVars == <<gen, aPc, aOp, aOut, aNet, aSleeps, aPoll, aStart, now, aCalls>>
exportVars == <<summary, saved, fs>>
appVars == <<env, session, view, upload, appCalls>>
concVars == <<shScorer, shDisk, calls>>
protoVars == <<character, questions, page>>
vars == <<scorer, pc, kind, result, tr, exc, tmp, disk, log, ncalls,
          vIn, vDone, vOut, fPc, fOp, fIn, fOut,
          gen, aPc, aOp, aOut, aNet, aSleeps, aPoll, aStart, now, aCalls,
          summary, saved, fs, env, session, view, upload, appCalls,
          shScorer, shDisk, calls, character, questions, page>>
\* what the actions of one group leave unchanged
othersOfPipe == <<validVars, feedbackVars, avatarVars, exportVars, appVars, concVars, protoVars>>
othersOfValid == <<pipeVars, feedbackVars, avatarVars, exportVars, appVars, concVars, protoVars>>
othersOfFeedback == <<pipeVars, validVars, avatarVars, exportVars, appVars, concVars, protoVars>>
othersOfAvatar == <<pipeVars, validVars, feedbackVars, exportVars, appVars, concVars, protoVars>>
othersOfExport == <<pipeVars, validVars, feedbackVars, avatarVars, appVars, concVars, protoVars>>
othersOfApp == <<validVars, feedbackVars, avatarVars, exportVars, concVars, protoVars>>
othersOfConc == <<pipeVars, validVars, feedbackVars, avatarVars, exportVars, appVars, protoVars>>
othersOfProto == <<pipeVars, validVars, feedbackVars, avatarVars, exportVars, appVars, concVars>>

----------------------------------------------------------------------------
(* Python's None, for string-valued and for dictionary-valued fields.      *)
None == "<None>"
NoneRec == [none |-> TRUE]

(* ------------------------------ bounds --------------------------------- *)
\* pipeline calls started in one behaviour
MaxCalls == 2
\* padding characters around a phrase in the is_transcription_valid inputs
MaxPad == 61

(* --------------------------- string helpers ---------------------------- *)
Rep(c, n) == [i \in 1..n |-> c]

UpperLetters == <<"A","B","C","D","E","F","G","H","I","J","K","L","M","N","O","P","Q","R","S","T","U","V","W","X","Y","Z">>
LowerLetters == <<"a","b","c","d","e","f","g","h","i","j","k","l","m","n","o","p","q","r","s","t","u","v","w","x","y","z">>

\* str.lower(), one character
LowerChar(c) ==
    IF \E i \in 1..26 : UpperLetters[i] = c
    THEN LowerLetters[CHOOSE i \in 1..26 : UpperLetters[i] = c]
    ELSE c

\* str.upper(), one character (used to build inputs only)
UpperChar(c) ==
    IF \E i \in 1..26 : LowerLetters[i] = c
    THEN UpperLetters[CHOOSE i \in 1..26 : LowerLetters[i] = c]
    ELSE c

\* str.lower()
ToLower(s) == [i \in 1..Len(s) |-> LowerChar(s[i])]
ToUpper(s) == [i \in 1..Len(s) |-> UpperChar(s[i])]
\* alternating casing, first character upper (used to build inputs only)
ToMixed(s) == [i \in 1..Len(s) |-> IF i % 2 = 1 THEN UpperChar(s[i]) ELSE LowerChar(s[i])]

Whitespace == {" ", "\t", "\n"}

\* str.strip(): drop leading and trailing whitespace
Strip(s) ==
    LET keep == {i \in 1..Len(s) : s[i] \notin Whitespace}
    IN IF keep = {} THEN <<>>
       ELSE LET lo == CHOOSE i \in keep : \A j \in keep : i <= j
                hi == CHOOSE i \in keep : \A j \in keep : j <= i
            IN SubSeq(s, lo, hi)

\* Python's `sub in s`
Contains(s, sub) ==
    \E i \in 1..(Len(s) - Len(sub) + 1) : SubSeq(s, i, i + Len(sub) - 1) = sub

Last(s) == s[Len(s)]

(* ====================== whisper_transcribe.py ========================== *)
\* default of the min_length parameter
DefaultMinLength == 10
\* `len(text) < 50` in the failure-indicator test
ShortTextLimit == 50

\* failure_indicators, exactly as the list is written in the source
failure_indicators == <<
    <<"t","h","a","n","k"," ","y","o","u"," ","f","o","r"," ","w","a","t","c","h","i","n","g">>,
    <<"t","h","a","n","k","s"," ","f","o","r"," ","w","a","t","c","h","i","n","g">>,
    <<"p","l","e","a","s","e"," ","s","u","b","s","c","r","i","b","e">>,
    <<"[","M","u","s","i","c","]">>,
    <<"[","A","p","p","l","a","u","s","e","]">>,
    <<".",".",".">> >>

\* the failure-indicator loop with a wrong length limit (text of any length)
IndicatorHit_NoLengthLimit(text) ==
    \E k \in 1..Len(failure_indicators) :
        Contains(ToLower(text), failure_indicators[k])

\* `for indicator in failure_indicators:
\*      if indicator in text_lower and len(text) < 50: return False`
IndicatorHit(text) ==
    LET text_lower == ToLower(text)
    IN \E k \in 1..Len(failure_indicators) :
           Contains(text_lower, failure_indicators[k]) /\ Len(text) < ShortTextLimit

\* WhisperTranscriber.is_transcription_valid
is_transcription_valid(transcription_result, min_length) ==
    IF ~transcription_result.success THEN FALSE
    ELSE LET text == Strip(transcription_result.text)
         IN IF Len(text) < min_length THEN FALSE
            ELSE ~IndicatorHit(text)

\* an except clause that drops the error text
TranscriptionFailure_NoError(err) ==
    [text |-> <<>>, language |-> None, duration |-> None, segments |-> <<>>,
     success |-> FALSE, error |-> None]

\* the dictionary both transcribe methods return from their except clause
TranscriptionFailure(err) ==
    [text |-> <<>>, language |-> None, duration |-> None, segments |-> <<>>,
     success |-> FALSE, error |-> err]

\* the dictionary transcribe_audio builds from the API's transcript object
TranscriptionSuccess(transcript) ==
    [text |-> Strip(transcript.text), language |-> transcript.language,
     duration |-> transcript.duration, segments |-> transcript.segments,
     success |-> TRUE, error |-> None]

(* ---- a direct call of is_transcription_valid on a constructed result --- *)
ValidIdle == vIn = NoneRec /\ vDone = FALSE /\ vOut = FALSE

\* the casings a phrase is written in: lower case, upper case, as the source
\* list spells it, and alternating
Casings == {"lower", "upper", "source", "mixed"}
Cased(s, c) ==
    CASE c = "lower" -> ToLower(s)
      [] c = "upper" -> ToUpper(s)
      [] c = "mixed" -> ToMixed(s)
      [] OTHER -> s

\* values of the min_length argument
MinLengths == {DefaultMinLength, 2 * DefaultMinLength}

\* text number `phrase` (0: no phrase) in casing c, embedded in `pad`
\* letters, with `lead`/`trail` blanks around it
BuildText(phrase, c, pad, lead, trail) ==
    LET core == IF phrase = 0 THEN <<>> ELSE Cased(failure_indicators[phrase], c)
        pre == pad \div 2
    IN Rep(" ", lead) \o Rep("a", pre) \o core \o Rep("a", pad - pre) \o Rep(" ", trail)

InitValid ==
    /\ \E phrase \in 0..Len(failure_indicators), c \in Casings, pad \in 0..MaxPad,
          lead \in 0..1, trail \in 0..1, ok \in BOOLEAN, m \in MinLengths :
          vIn = [tr |-> [text |-> BuildText(phrase, c, pad, lead, trail),
                         language |-> "en", duration |-> None, segments |-> <<>>,
                         success |-> ok, error |-> IF ok THEN None ELSE "failed"],
                 min_length |-> m]
    /\ vDone = FALSE
    /\ vOut = FALSE

CheckValid ==
    /\ vIn # NoneRec
    /\ ~vDone
    /\ vOut' = is_transcription_valid(vIn.tr, vIn.min_length)
    /\ vDone' = TRUE
    /\ UNCHANGED <<vIn, othersOfValid>>

(* ========================== gpt_feedback.py ============================ *)
\* ArgumentFeedback: score ge=1.0, le=10.0 (hundredths)
ScoreMin == 100
ScoreMax == 1000
\* ArgumentFeedback: emojis min_length=1, max_length=20
EmojisMinLen == 1
EmojisMaxLen == 20
\* ArgumentFeedback: comment max_length=100
CommentMaxLen == 100

\* ArgumentFeedback without the upper bound on score
ArgumentFeedbackValid_NoUpperBound(feedback_data) ==
    /\ {"score", "emojis", "comment"} \subseteq DOMAIN feedback_data
    /\ feedback_data.score >= ScoreMin
    /\ Len(feedback_data.emojis) >= EmojisMinLen
    /\ Len(feedback_data.emojis) <= EmojisMaxLen
    /\ Len(feedback_data.comment) <= CommentMaxLen

\* ArgumentFeedback(**feedback_data) constructs without a ValidationError:
\* the three required fields are present and within their Field constraints
ArgumentFeedbackValid(feedback_data) ==
    /\ {"score", "emojis", "comment"} \subseteq DOMAIN feedback_data
    /\ feedback_data.score >= ScoreMin
    /\ feedback_data.score <= ScoreMax
    /\ Len(feedback_data.emojis) >= EmojisMinLen
    /\ Len(feedback_data.emojis) <= EmojisMaxLen
    /\ Len(feedback_data.comment) <= CommentMaxLen

\* fallback_responses of _get_fallback_feedback (emoji glyphs by name)
fallback_responses == <<
    [score |-> 500,
     emojis |-> <<"robot", "sweat_smile", "wrench">>,
     comment |-> <<"A","I"," ","b","r","a","i","n"," ","g","l","i","t","c","h","e","d","!"," ","B","u","t"," ","I"," ","h","e","a","r","d"," ","s","o","m","e"," ","g","o","o","d"," ","p","o","i","n","t","s",".">>,
     reasoning |-> "Technical difficulties occurred"],
    [score |-> 600,
     emojis |-> <<"zap", "thinking", "thought_balloon">>,
     comment |-> <<"C","o","n","n","e","c","t","i","o","n"," ","i","s","s","u","e","s",","," ","b","u","t"," ","y","o","u","r"," ","p","a","s","s","i","o","n"," ","c","a","m","e"," ","t","h","r","o","u","g","h","!">>,
     reasoning |-> "API error during evaluation"],
    [score |-> 550,
     emojis |-> <<"globe", "blush", "thumbsup">>,
     comment |-> <<"T","e","c","h","n","i","c","a","l"," ","h","i","c","c","u","p",","," ","b","u","t"," ","k","e","e","p"," ","a","r","g","u","i","n","g","!">>,
     reasoning |-> "System error occurred"] >>

\* random.choice draws an index of fallback_responses; a broken draw that
\* always takes the first record
FallbackChoices_FirstOnly == {1}
\* the indices random.choice(fallback_responses) can draw
FallbackChoices == 1..Len(fallback_responses)

\* a fallback that hands back the error under success=True
get_fallback_feedback_Success(error_message, choice) ==
    [score |-> fallback_responses[choice].score,
     emojis |-> fallback_responses[choice].emojis,
     comment |-> fallback_responses[choice].comment,
     reasoning |-> fallback_responses[choice].reasoning,
     success |-> TRUE, error |-> error_message, raw_response |-> None]

\* GPTFeedbackGenerator._get_fallback_feedback, `choice` the index drawn
get_fallback_feedback(error_message, choice) ==
    [score |-> fallback_responses[choice].score,
     emojis |-> fallback_responses[choice].emojis,
     comment |-> fallback_responses[choice].comment,
     reasoning |-> fallback_responses[choice].reasoning,
     success |-> FALSE, error |-> error_message, raw_response |-> None]

\* str(e) of pydantic's ValidationError
ValidationErrorText == "validation error for ArgumentFeedback"
\* str(e) of json.JSONDecodeError
JSONDecodeErrorText == "Expecting value: line 1 column 1 (char 0)"

\* GPTFeedbackGenerator.generate_feedback from the remote call's outcome on.
\* response: [kind |-> "error", err] when client.chat.completions.create
\* raised, else [kind |-> "content", valid_json, raw, data] where raw is the
\* message content and data what json.loads(raw) yields when valid_json
generate_feedback(response, choice) ==
    IF response.kind = "error"
    THEN get_fallback_feedback(response.err, choice)
    ELSE IF ~response.valid_json
    THEN get_fallback_feedback("Invalid response format from AI", choice)
    ELSE IF ~ArgumentFeedbackValid(response.data)
    THEN get_fallback_feedback(ValidationErrorText, choice)
    ELSE [score |-> response.data.score,
          emojis |-> response.data.emojis,
          comment |-> response.data.comment,
          reasoning |-> IF "reasoning" \in DOMAIN response.data
                        THEN response.data.reasoning ELSE None,
          success |-> TRUE, error |-> None, raw_response |-> response.raw]

\* `for key in required_keys: if key not in feedback_data: raise ValueError`
MissingKeyText(feedback_data) ==
    IF "score" \notin DOMAIN feedback_data THEN "Missing required key: score"
    ELSE IF "emojis" \notin DOMAIN feedback_data THEN "Missing required key: emojis"
    ELSE "Missing required key: comment"

\* GPTFeedbackGenerator.generate_custom_feedback from the remote call's
\* outcome on; the success result is {**feedback_data, success, error,
\* raw_response}
generate_custom_feedback(response, choice) ==
    IF response.kind = "error"
    THEN get_fallback_feedback(response.err, choice)
    ELSE IF ~response.valid_json
    THEN get_fallback_feedback(JSONDecodeErrorText, choice)
    ELSE IF ~({"score", "emojis", "comment"} \subseteq DOMAIN response.data)
    THEN get_fallback_feedback(MissingKeyText(response.data), choice)
    ELSE [k \in DOMAIN response.data \cup {"success", "error", "raw_response"} |->
            CASE k = "success" -> TRUE
              [] k = "error" -> None
              [] k = "raw_response" -> response.raw
              [] OTHER -> response.data[k]]

(* ---- a direct call of generate_feedback / generate_custom_feedback ---- *)
FeedbackIdle == fPc = "idle" /\ fOp = None /\ fIn = NoneRec /\ fOut = NoneRec

\* errors client.chat.completions.create can raise
ChatErrors == {"Connection error.", "Rate limit reached"}

\* the JSON objects the remote model answers with: each of score, emojis,
\* comment, reasoning present or not, values on both sides of every limit
ChatScores == {ScoreMin - 50, ScoreMin - 1, ScoreMin, 820, ScoreMax, ScoreMax + 1, ScoreMax + 100}
ChatEmojiLens == {0, EmojisMinLen, 3, EmojisMaxLen, EmojisMaxLen + 1}
ChatCommentLens == {0, 26, CommentMaxLen, CommentMaxLen + 1}

ChatData(keys, score, ne, nc) ==
    [k \in keys |->
        CASE k = "score" -> score
          [] k = "emojis" -> Rep("fire", ne)
          [] k = "comment" -> Rep("x", nc)
          [] OTHER -> "Good structure and clear examples"]

ChatContents ==
    { [kind |-> "content", valid_json |-> TRUE,
       raw |-> ToString(ChatData(keys, score, ne, nc)),
       data |-> ChatData(keys, score, ne, nc)] :
        keys \in SUBSET {"score", "emojis", "comment", "reasoning"},
        score \in ChatScores, ne \in ChatEmojiLens, nc \in ChatCommentLens }

ChatResponses ==
    ChatContents
    \cup { [kind |-> "content", valid_json |-> FALSE, raw |-> "Sorry, I can't", data |-> NoneRec] }
    \cup { [kind |-> "error", err |-> e] : e \in ChatErrors }

InitFeedback == FeedbackIdle

\* the remote call of either operation returns or raises
ChatCompletion ==
    /\ fPc = "idle"
    /\ \E op \in {"generate_feedback", "generate_custom_feedback"}, response \in ChatResponses :
          /\ fOp' = op
          /\ fIn' = response
    /\ fPc' = "pending"
    /\ UNCHANGED <<fOut, othersOfFeedback>>

\* the rest of the operation: parse, validate, build the result or fall back
FeedbackReturn ==
    /\ fPc = "pending"
    /\ \E choice \in FallbackChoices :
          fOut' = IF fOp = "generate_feedback"
                  THEN generate_feedback(fIn, choice)
                  ELSE generate_custom_feedback(fIn, choice)
    /\ fPc' = "returned"
    /\ UNCHANGED <<fOp, fIn, othersOfFeedback>>

(* ============================ avatar_gen.py ============================ *)
\* HeyGenAvatarGenerator.__init__: enabled exactly when an API key is given
HeyGenAvatarGeneratorInit(api_key, avatar_id) ==
    [api_key |-> api_key, avatar_id |-> avatar_id, enabled |-> api_key # None]

\* HeyGenAvatarGenerator._get_disabled_response
get_disabled_response ==
    [success |-> FALSE, video_id |-> None, status |-> "disabled", video_url |-> None,
     message |-> "Avatar generation is disabled. Add HeyGen API key to enable.",
     error |-> "HeyGen API key not configured"]

\* HeyGenAvatarGenerator._get_error_response
get_error_response(error_message) ==
    [success |-> FALSE, video_id |-> None, status |-> "error", video_url |-> None,
     message |-> "Avatar video generation failed", error |-> error_message]

\* Python's `a or b` on optional strings
OrElse(a, b) == IF a # None /\ a # "" THEN a ELSE b

\* the request generate_avatar_video sends, if it sends one: none when the
\* generator is disabled or no avatar id resolves
GenerateVideoRequest(g, script_text, avatar_id) ==
    IF g.enabled /\ OrElse(avatar_id, g.avatar_id) # None
    THEN <<[method |-> "POST", url |-> "/video/generate",
            avatar_id |-> OrElse(avatar_id, g.avatar_id), input_text |-> script_text]>>
    ELSE <<>>

\* generate_avatar_video that takes HTTP 200 for success whatever the body
generate_avatar_video_NoIdCheck(g, script_text, avatar_id, post) ==
    IF ~g.enabled THEN get_disabled_response
    ELSE IF OrElse(avatar_id, g.avatar_id) = None
    THEN get_error_response("Avatar ID is required. Set HEYGEN_AVATAR_ID environment variable or pass avatar_id parameter.")
    ELSE IF post.kind = "error" THEN get_error_response(post.err)
    ELSE IF post.status_code = 200
    THEN [success |-> TRUE, video_id |-> post.video_id, status |-> "generating",
          message |-> "Avatar video generation started", error |-> None]
    ELSE get_error_response("HeyGen API error: " \o ToString(post.status_code) \o " - " \o post.text)

\* HeyGenAvatarGenerator.generate_avatar_video.
\* post: [kind |-> "error", err] when requests.post raised, else
\* [kind |-> "http", status_code, valid_json, video_id, text], video_id being
\* what result_data.get("data", {}).get("video_id") yields
generate_avatar_video(g, script_text, avatar_id, post) ==
    IF ~g.enabled THEN get_disabled_response
    ELSE IF OrElse(avatar_id, g.avatar_id) = None
    THEN get_error_response("Avatar ID is required. Set HEYGEN_AVATAR_ID environment variable or pass avatar_id parameter.")
    ELSE IF post.kind = "error" THEN get_error_response(post.err)
    ELSE IF post.status_code = 200
    THEN IF ~post.valid_json THEN get_error_response(JSONDecodeErrorText)
         ELSE IF post.video_id # None /\ post.video_id # ""
         THEN [success |-> TRUE, video_id |-> post.video_id, status |-> "generating",
               message |-> "Avatar video generation started", error |-> None]
         ELSE get_error_response("No video ID returned from API")
    ELSE get_error_response("HeyGen API error: " \o ToString(post.status_code) \o " - " \o post.text)

\* outcomes of POST /video/generate
AvatarPosts ==
    { [kind |-> "http", status_code |-> 200, valid_json |-> TRUE, video_id |-> "video-1", text |-> "ok"],
      [kind |-> "http", status_code |-> 200, valid_json |-> TRUE, video_id |-> None, text |-> "ok"],
      [kind |-> "http", status_code |-> 200, valid_json |-> FALSE, video_id |-> None, text |-> "<html>"],
      [kind |-> "http", status_code |-> 500, valid_json |-> TRUE, video_id |-> None, text |-> "Internal Server Error"],
      [kind |-> "error", err |-> "Read timed out."] }

(* ---- generate_reaction_script ---- *)
\* str.replace(old, new): occurrences replaced left to right, not overlapping
RECURSIVE Replace(_, _, _)
Replace(s, old, new) ==
    IF Len(s) < Len(old) THEN s
    ELSE IF SubSeq(s, 1, Len(old)) = old
    THEN new \o Replace(SubSeq(s, Len(old) + 1, Len(s)), old, new)
    ELSE <<s[1]>> \o Replace(Tail(s), old, new)

DigitChars == <<"0","1","2","3","4","5","6","7","8","9">>
\* the decimal digits of a natural number
RECURSIVE IntChars(_)
IntChars(n) ==
    IF n < 10 THEN <<DigitChars[n + 1]>>
    ELSE IntChars(n \div 10) \o <<DigitChars[(n % 10) + 1]>>
\* f"{score}" of a float score (hundredths): 820 -> 8.2, 800 -> 8.0, 805 -> 8.05
ScoreChars(score) ==
    IntChars(score \div 100) \o <<".">> \o
    (IF score % 10 = 0 THEN <<DigitChars[((score % 100) \div 10) + 1]>>
     ELSE <<DigitChars[((score % 100) \div 10) + 1], DigitChars[(score % 10) + 1]>>)

IntroWow == <<"W","o","w","!"," ","T","h","a","t"," ","w","a","s"," ","i","m","p","r","e","s","s","i","v","e","!">>
IntroNotBad == <<"N","o","t"," ","b","a","d",","," ","n","o","t"," ","b","a","d","!">>
IntroHmm == <<"H","m","m",","," ","I"," ","s","e","e"," ","w","h","a","t"," ","y","o","u","'","r","e"," ","t","r","y","i","n","g"," ","t","o"," ","s","a","y",".",".",".">>
IntroHonest == <<"O","k","a","y",","," ","l","e","t"," ","m","e"," ","b","e"," ","h","o","n","e","s","t"," ","w","i","t","h"," ","y","o","u",".",".",".">>
\* defaults of feedback_data.get("score", 5.0) and .get("comment", ...)
DefaultScriptScore == 500
DefaultScriptComment == <<"I","n","t","e","r","e","s","t","i","n","g"," ","a","r","g","u","m","e","n","t","!">>
ScriptGiving == <<"I","'","m"," ","g","i","v","i","n","g"," ","y","o","u"," ","a">>
ScriptOutOf == <<"o","u","t"," ","o","f"," ","1","0"," ","f","o","r"," ","t","h","a","t"," ","a","r","g","u","m","e","n","t","!">>

\* the intro chosen with > in place of >=
ScriptIntro_Strict(score) ==
    IF score > 800 THEN IntroWow
    ELSE IF score > 600 THEN IntroNotBad
    ELSE IF score > 400 THEN IntroHmm
    ELSE IntroHonest

\* `if score >= 8.0 ... elif score >= 6.0 ... elif score >= 4.0 ... else`
ScriptIntro(score) ==
    IF score >= 800 THEN IntroWow
    ELSE IF score >= 600 THEN IntroNotBad
    ELSE IF score >= 400 THEN IntroHmm
    ELSE IntroHonest

\* comment.replace("...", " pause ").replace("!", " exclamation ")
CleanComment(comment) ==
    Replace(Replace(comment, <<".",".",".">>, <<" ","p","a","u","s","e"," ">>), <<"!">>, <<" ","e","x","c","l","a","m","a","t","i","o","n"," ">>)

\* HeyGenAvatarGenerator.generate_reaction_script
generate_reaction_script(feedback_data) ==
    LET score == IF "score" \in DOMAIN feedback_data THEN feedback_data.score
                 ELSE DefaultScriptScore
        comment == IF "comment" \in DOMAIN feedback_data THEN feedback_data.comment
                   ELSE DefaultScriptComment
    IN ScriptIntro(score) \o <<" ">> \o CleanComment(comment) \o <<" ">>
       \o ScriptGiving \o <<" ">> \o ScoreChars(score) \o <<" ">> \o ScriptOutOf

\* HeyGenAvatarGenerator.create_reaction_video: the script is composed from
\* feedback_data and handed to generate_avatar_video
create_reaction_video(g, feedback_data, avatar_id, post) ==
    IF ~g.enabled THEN get_disabled_response
    ELSE generate_avatar_video(g, generate_reaction_script(feedback_data), avatar_id, post)

\* the request create_reaction_video sends, if it sends one
CreateReactionVideoRequest(g, feedback_data, avatar_id) ==
    IF ~g.enabled THEN <<>>
    ELSE GenerateVideoRequest(g, generate_reaction_script(feedback_data), avatar_id)

(* ---- check_video_status, wait_for_completion ---- *)
\* dict.get(key) on a parsed JSON object
Get(data, key) == IF key \in DOMAIN data THEN data[key] ELSE None

\* the request check_video_status sends, if it sends one
CheckStatusRequest(g, video_id) ==
    IF g.enabled THEN <<[method |-> "GET", url |-> "/video/" \o video_id]>> ELSE <<>>

\* check_video_status without the test of self.enabled
check_video_status_NoEnabledTest(g, video_id, get) ==
    IF get.kind = "error" THEN get_error_response(get.err)
    ELSE IF get.status_code = 200
    THEN IF ~get.valid_json THEN get_error_response(JSONDecodeErrorText)
         ELSE [success |-> TRUE, video_id |-> video_id,
               status |-> IF "status" \in DOMAIN get.data THEN get.data.status ELSE "unknown",
               video_url |-> Get(get.data, "video_url"),
               duration |-> Get(get.data, "duration"),
               thumbnail_url |-> Get(get.data, "thumbnail_url"),
               error |-> None]
    ELSE get_error_response("Status check failed: " \o ToString(get.status_code) \o " - " \o get.text)

\* HeyGenAvatarGenerator.check_video_status.
\* get: [kind |-> "error", err] when requests.get raised, else
\* [kind |-> "http", status_code, valid_json, data, text], data being what
\* result_data.get("data", {}) yields
check_video_status(g, video_id, get) ==
    IF ~g.enabled THEN get_disabled_response
    ELSE IF get.kind = "error" THEN get_error_response(get.err)
    ELSE IF get.status_code = 200
    THEN IF ~get.valid_json THEN get_error_response(JSONDecodeErrorText)
         ELSE [success |-> TRUE, video_id |-> video_id,
               status |-> IF "status" \in DOMAIN get.data THEN get.data.status ELSE "unknown",
               video_url |-> Get(get.data, "video_url"),
               duration |-> Get(get.data, "duration"),
               thumbnail_url |-> Get(get.data, "thumbnail_url"),
               error |-> None]
    ELSE get_error_response("Status check failed: " \o ToString(get.status_code) \o " - " \o get.text)

\* the loop body of wait_for_completion, if an unrecognized status ended it
WaitVerdict_UnknownEnds(status_result) ==
    IF ~status_result.success THEN [ends |-> TRUE, value |-> status_result]
    ELSE IF status_result.status = "completed" THEN [ends |-> TRUE, value |-> status_result]
    ELSE IF status_result.status = "failed"
    THEN [ends |-> TRUE, value |-> get_error_response("Video generation failed")]
    ELSE IF status_result.status \in {"generating", "pending"}
    THEN [ends |-> FALSE, value |-> NoneRec]
    ELSE [ends |-> TRUE, value |-> get_error_response("Video generation failed")]

\* the loop body of wait_for_completion, if a failed poll were retried
WaitVerdict_RetriesFailedPoll(status_result) ==
    IF ~status_result.success THEN [ends |-> FALSE, value |-> NoneRec]
    ELSE IF status_result.status = "completed" THEN [ends |-> TRUE, value |-> status_result]
    ELSE IF status_result.status = "failed"
    THEN [ends |-> TRUE, value |-> get_error_response("Video generation failed")]
    ELSE [ends |-> FALSE, value |-> NoneRec]

\* the loop body of wait_for_completion after the poll: whether the call
\* returns and what; otherwise it sleeps poll_interval
WaitVerdict(status_result) ==
    IF ~status_result.success THEN [ends |-> TRUE, value |-> status_result]
    ELSE IF status_result.status = "completed" THEN [ends |-> TRUE, value |-> status_result]
    ELSE IF status_result.status = "failed"
    THEN [ends |-> TRUE, value |-> get_error_response("Video generation failed")]
    ELSE [ends |-> FALSE, value |-> NoneRec]

\* `while time.time() - start_time < max_wait_time`
WaitGoesOn(elapsed, max_wait_time) == elapsed < max_wait_time

\* the result returned after the loop
WaitTimeout(max_wait_time) ==
    get_error_response("Video generation timed out after " \o ToString(max_wait_time) \o " seconds")

\* answers of GET /video/<id>
StatusData ==
    { [status |-> "generating"],
      [status |-> "pending"],
      [status |-> "completed", video_url |-> "https://files.heygen.ai/video-1.mp4",
       duration |-> "12.5", thumbnail_url |-> "https://files.heygen.ai/video-1.jpg"],
      [status |-> "failed"],
      [status |-> "processing"],
      [duration |-> "0.0"] }
StatusGets ==
    { [kind |-> "http", status_code |-> 200, valid_json |-> TRUE, data |-> d, text |-> "ok"] :
         d \in StatusData }
    \cup { [kind |-> "http", status_code |-> 404, valid_json |-> TRUE, data |-> NoneRec, text |-> "Not Found"],
           [kind |-> "http", status_code |-> 200, valid_json |-> FALSE, data |-> NoneRec, text |-> "<html>"],
           [kind |-> "error", err |-> "Read timed out."] }

(* ============================== scoring.py ============================= *)
\* ArgumentScorer.__init__: the avatar generator is built only when
\* enable_avatar is set, else the attribute is None
ArgumentScorerInit(enable_avatar, heygen_api_key, heygen_avatar_id) ==
    [enable_avatar |-> enable_avatar,
     avatar_generator |-> IF enable_avatar
                          THEN HeyGenAvatarGeneratorInit(heygen_api_key, heygen_avatar_id)
                          ELSE NoneRec]

\* `self.avatar_generator and self.avatar_generator.is_enabled()`, negated:
\* the avatar stage runs whenever a generator object exists
AvatarAvailable_IgnoreEnabled(sc) == sc.avatar_generator # NoneRec

\* `self.avatar_generator and self.avatar_generator.is_enabled()`
AvatarAvailable(sc) ==
    /\ sc.avatar_generator # NoneRec
    /\ sc.avatar_generator.enabled

\* the dictionary get_avatar_video_status returns without a usable generator
StatusNotEnabled ==
    [success |-> FALSE, status |-> "disabled", message |-> "Avatar generation is not enabled"]

\* ArgumentScorer.get_avatar_video_status
get_avatar_video_status(sc, video_id, get) ==
    IF ~AvatarAvailable(sc) THEN StatusNotEnabled
    ELSE check_video_status(sc.avatar_generator, video_id, get)

\* the request get_avatar_video_status sends, if it sends one
AvatarVideoStatusRequest(sc, video_id) ==
    IF ~AvatarAvailable(sc) THEN <<>>
    ELSE CheckStatusRequest(sc.avatar_generator, video_id)

\* the result structure both process methods start from
NewResult(timestamp, audio_file, context) ==
    [timestamp |-> timestamp, audio_file |-> audio_file, context |-> context,
     transcription |-> NoneRec, feedback |-> NoneRec, avatar_video |-> NoneRec,
     success |-> FALSE, error |-> None, processing_steps |-> <<>>]

\* a step log that grows at the front
AppendStep_Prepend(r, label) ==
    [r EXCEPT !.processing_steps = <<label>> \o @]

\* result["processing_steps"].append(label)
AppendStep(r, label) ==
    [r EXCEPT !.processing_steps = Append(@, label)]

\* the placeholder stored when the avatar stage is skipped
DisabledPlaceholder ==
    [success |-> FALSE, status |-> "disabled", message |-> "Avatar generation is disabled"]

(* ----------------------- inputs of a pipeline run ---------------------- *)
Contexts == {None, "Pineapple on pizza debate"}
\* audio_file_path values and whether the path exists
AudioPaths == {"argument.wav", "missing.wav"}
PathExists(path) == path = "argument.wav"
BlobFilename == "recording.webm"

\* transcripts the speech-to-text API answers with; the segments of a
\* verbose_json answer are TranscriptionSegment objects or plain
\* dictionaries, depending on the installed openai client
WhisperTranscripts ==
    { [text |-> <<" ","P","i","n","e","a","p","p","l","e"," ","o","n"," ","p","i","z","z","a"," ","i","s"," ","t","h","e"," ","b","e","s","t"," ","t","h","i","n","g"," ","e","v","e","r","\n">>,
       language |-> "english", duration |-> "3.2",
       segments |-> <<[class |-> "TranscriptionSegment", id |-> 0]>>],
      [text |-> <<"C","a","t","s"," ","a","r","e"," ","b","e","t","t","e","r"," ","t","h","a","n"," ","d","o","g","s">>,
       language |-> "english", duration |-> "2.0",
       segments |-> <<[id |-> 0, text |-> "Cats are better than dogs"]>>],
      [text |-> <<"o","k">>, language |-> "english", duration |-> "0.4", segments |-> <<>>],
      [text |-> <<"P","l","e","a","s","e"," ","s","u","b","s","c","r","i","b","e">>,
       language |-> "english", duration |-> "1.1", segments |-> <<>>] }
WhisperErrors == {"Connection error."}

\* answers of the chat-completion API during a pipeline run
PipeChatResponses ==
    { [kind |-> "content", valid_json |-> TRUE, raw |-> "{score: 8.2}",
       data |-> [score |-> 820, emojis |-> <<"fire", "yum", "clap">>,
                 comment |-> <<"B","o","l","d"," ","t","a","k","e"," ","b","u","t"," ","y","o","u"," ","s","o","l","d"," ","i","t","!">>]],
      [kind |-> "content", valid_json |-> TRUE, raw |-> "{score: 11.0}",
       data |-> [score |-> 1100, emojis |-> <<"fire">>, comment |-> <<"W","o","w">>,
                 reasoning |-> "Off the scale"]],
      [kind |-> "content", valid_json |-> FALSE, raw |-> "Sorry, I can't", data |-> NoneRec],
      [kind |-> "error", err |-> "Connection error."] }

\* errors os-level calls on the temporary file can raise
TempFileErrors ==
    {"[Errno 28] No space left on device", "a bytes-like object is required, not 'str'"}

NoTmp == [name |-> 0, path |-> 0]

PipeIdle ==
    /\ scorer = NoneRec /\ pc = "off" /\ kind = None /\ result = NoneRec
    /\ tr = NoneRec /\ exc = None /\ tmp = NoTmp /\ disk = {} /\ log = <<>>
    /\ ncalls = 0

InitPipe ==
    /\ \E enable_avatar \in BOOLEAN, key \in {None, "heygen-key"}, aid \in {None, "avatar-1"} :
          scorer = ArgumentScorerInit(enable_avatar, key, aid)
    /\ pc = "idle" /\ kind = None /\ result = NoneRec
    /\ tr = NoneRec /\ exc = None /\ tmp = NoTmp /\ disk = {} /\ log = <<>>
    /\ ncalls = 0

(* --------------------- the pipeline, step by step ---------------------- *)
Logged(ev) == Append(log, ev)

\* a blob pipeline with a first step label of its own
StartedLabel_BlobDiffers(k) ==
    IF k = "blob" THEN "blob_transcription_started" ELSE "transcription_started"

\* the first step label: process_audio_file and process_audio_blob append
\* the same one
StartedLabel(k) == "transcription_started"

\* process_audio_file / process_audio_blob up to the call of the
\* transcriber: the result structure and the first step label.  What the
\* caller did with the previous result (its summary, the path it was saved
\* under) belongs to the previous call and is dropped; files stay.
ProcessStart ==
    /\ pc \in {"idle", "done"}
    /\ ncalls < MaxCalls
    /\ \E k \in {"file", "blob"}, context \in Contexts, path \in AudioPaths :
          /\ kind' = k
          /\ result' = AppendStep(
                 NewResult(ncalls + 1, IF k = "file" THEN path ELSE BlobFilename, context),
                 StartedLabel(k))
          /\ pc' = IF k = "blob" THEN "tmpfile" ELSE "transcribe"
    /\ ncalls' = ncalls + 1
    /\ tr' = NoneRec
    /\ exc' = None
    /\ tmp' = NoTmp
    /\ log' = <<[ev |-> "transcriber.call"]>>
    /\ summary' = [of |-> 0]
    /\ saved' = [of |-> 0]
    /\ UNCHANGED <<scorer, disk, fs, validVars, feedbackVars, avatarVars, appVars,
                   concVars, protoVars>>

\* the with-block's exit path when write() raises: the file was opened with
\* delete=False, so closing it leaves it on disk
TempFileAfterWriteError(name) == disk \cup {name}

\* transcribe_audio_blob: NamedTemporaryFile(delete=False) creates the file
\* and the blob is written to it; temp_file_path is assigned after the write.
\* An error of the creation or of the write goes to the outer except clause.
TempFileCreate ==
    /\ pc = "tmpfile"
    /\ LET name == ncalls
       IN \/ \* created and written
             /\ disk' = disk \cup {name}
             /\ tmp' = [name |-> name, path |-> name]
             /\ pc' = "transcribe"
             /\ UNCHANGED <<tr, log>>
          \/ \* created, write() raises
             /\ \E e \in TempFileErrors : tr' = TranscriptionFailure(e)
             /\ disk' = TempFileAfterWriteError(name)
             /\ tmp' = [name |-> name, path |-> 0]
             /\ pc' = "gate"
             /\ log' = Logged([ev |-> "transcriber.return"])
          \/ \* NamedTemporaryFile raises: no file
             /\ \E e \in TempFileErrors : tr' = TranscriptionFailure(e)
             /\ pc' = "gate"
             /\ log' = Logged([ev |-> "transcriber.return"])
             /\ UNCHANGED <<disk, tmp>>
    /\ UNCHANGED <<scorer, kind, result, exc, ncalls, othersOfPipe>>

\* the path transcribe_audio is called with
AudioPathExists ==
    IF kind = "blob" THEN tmp.path \in disk ELSE PathExists(result.audio_file)

\* WhisperTranscriber.transcribe_audio
TranscribeAudio ==
    /\ pc = "transcribe"
    /\ \/ \* the path does not exist: FileNotFoundError, no remote call
          /\ ~AudioPathExists
          /\ tr' = TranscriptionFailure("Audio file not found: " \o result.audio_file)
          /\ log' = IF kind = "blob" THEN log ELSE Logged([ev |-> "transcriber.return"])
       \/ \* the remote call returns a transcript
          /\ AudioPathExists
          /\ \E transcript \in WhisperTranscripts : tr' = TranscriptionSuccess(transcript)
          /\ log' = IF kind = "blob" THEN Logged([ev |-> "whisper_api.call"])
                    ELSE Logged([ev |-> "whisper_api.call"]) \o <<[ev |-> "transcriber.return"]>>
       \/ \* the remote call raises
          /\ AudioPathExists
          /\ \E e \in WhisperErrors : tr' = TranscriptionFailure(e)
          /\ log' = IF kind = "blob" THEN Logged([ev |-> "whisper_api.call"])
                    ELSE Logged([ev |-> "whisper_api.call"]) \o <<[ev |-> "transcriber.return"]>>
    /\ pc' = IF kind = "blob" THEN "cleanup" ELSE "gate"
    /\ UNCHANGED <<scorer, kind, result, exc, tmp, disk, ncalls, othersOfPipe>>

\* transcribe_audio_blob's finally clause, then its return
TempFileCleanup ==
    /\ pc = "cleanup"
    /\ disk' = IF tmp.path \in disk THEN disk \ {tmp.path} ELSE disk
    /\ pc' = "gate"
    /\ log' = Logged([ev |-> "transcriber.return"])
    /\ UNCHANGED <<scorer, kind, result, tr, exc, tmp, ncalls, othersOfPipe>>

\* the gate with the validity check left out
GatePasses_NoValidityCheck(transcription_result) == transcription_result.success

\* both `raise Exception` tests after the transcriber returned are passed
GatePasses(transcription_result) ==
    /\ transcription_result.success
    /\ is_transcription_valid(transcription_result, DefaultMinLength)

\* text of the exception the gate raises
GateError(transcription_result) ==
    IF ~transcription_result.success
    THEN "Transcription failed: " \o transcription_result.error
    ELSE "Transcription is too short or invalid"

\* the transcription result is stored and judged
Gate ==
    /\ pc = "gate"
    /\ IF GatePasses(tr)
       THEN /\ result' = AppendStep([result EXCEPT !.transcription = tr],
                                    "transcription_completed")
            /\ pc' = "feedback"
            /\ exc' = exc
       ELSE /\ result' = [result EXCEPT !.transcription = tr]
            /\ exc' = GateError(tr)
            /\ pc' = "except"
    /\ UNCHANGED <<scorer, kind, tr, tmp, disk, log, ncalls, othersOfPipe>>

\* the branch on a failed feedback, if it aborted the run like the gate does
FeedbackAborts_OnFailure(feedback_result) == ~feedback_result.success

\* `if not feedback_result.get("success")` only logs a warning: the run
\* goes on with the fallback feedback
FeedbackAborts(feedback_result) == FALSE

\* Step 2: the feedback client is called with the transcript text and the
\* context; whatever it returns is stored
Feedback ==
    /\ pc = "feedback"
    /\ \E response \in PipeChatResponses, choice \in FallbackChoices :
          LET feedback_result == generate_feedback(response, choice)
              stored == [AppendStep(result, "feedback_started") EXCEPT !.feedback = feedback_result]
          IN /\ log' = log \o <<[ev |-> "feedback.call", text |-> tr.text, context |-> result.context],
                                [ev |-> "feedback.return", value |-> feedback_result]>>
             /\ IF FeedbackAborts(feedback_result)
                THEN /\ result' = stored
                     /\ exc' = "Feedback generation failed: " \o feedback_result.error
                     /\ pc' = "except"
                ELSE /\ result' = AppendStep(stored, "feedback_completed")
                     /\ exc' = exc
                     /\ pc' = "avatar"
    /\ UNCHANGED <<scorer, kind, tr, tmp, disk, ncalls, othersOfPipe>>

\* an avatar branch that leaves out avatar_completed after a failure
AvatarStageSteps_FailureUnfinished(r, avatar_result) ==
    IF avatar_result.success
    THEN AppendStep([AppendStep(r, "avatar_started") EXCEPT !.avatar_video = avatar_result],
                    "avatar_completed")
    ELSE [AppendStep(r, "avatar_started") EXCEPT !.avatar_video = avatar_result]

\* avatar_started, the stored avatar result, avatar_completed
AvatarStageSteps(r, avatar_result) ==
    AppendStep([AppendStep(r, "avatar_started") EXCEPT !.avatar_video = avatar_result],
               "avatar_completed")

\* the end of the try block, if success were left unset
MarkSuccessful_NoFlag(r) == AppendStep(r, "pipeline_completed")

\* `result["success"] = True` and the pipeline_completed label
MarkSuccessful(r) ==
    AppendStep([r EXCEPT !.success = TRUE], "pipeline_completed")

\* Step 3 and the end of the try block: the avatar client is called when a
\* generator is configured and enabled, else the placeholder is stored; then
\* the result is marked successful and returned
Avatar ==
    /\ pc = "avatar"
    /\ IF AvatarAvailable(scorer)
       THEN \E post \in AvatarPosts :
               LET avatar_result ==
                       create_reaction_video(scorer.avatar_generator, result.feedback, None, post)
               IN /\ result' = MarkSuccessful(AvatarStageSteps(result, avatar_result))
                  /\ log' = log \o <<[ev |-> "avatar.call", feedback_data |-> result.feedback],
                                     [ev |-> "avatar.return", value |-> avatar_result]>>
       ELSE /\ result' = MarkSuccessful([result EXCEPT !.avatar_video = DisabledPlaceholder])
            /\ log' = log
    /\ pc' = "done"
    /\ UNCHANGED <<scorer, kind, tr, exc, tmp, disk, ncalls, othersOfPipe>>

\* an except clause that re-raises instead of returning the result
CaughtPc_Reraise == "raised"
\* position after the except clause: the result is returned
CaughtPc == "done"

\* `except Exception as e`: the error text is stored, the pipeline_failed
\* label appended, the partial result returned
HandleException ==
    /\ pc = "except"
    /\ result' = AppendStep([result EXCEPT !.error = exc], "pipeline_failed: " \o exc)
    /\ pc' = CaughtPc
    /\ UNCHANGED <<scorer, kind, tr, exc, tmp, disk, log, ncalls, othersOfPipe>>

\* A client that raises instead of returning (a transcriber, feedback or
\* avatar object other than this repository's, whose methods catch every
\* Exception themselves): control goes to the except clause with what was
\* stored so far
ClientErrors == {"client exploded"}
ClientRaises ==
    /\ \E e \in ClientErrors : exc' = e
    /\ \/ \* transcribe_audio / transcribe_audio_blob raises
          /\ pc = IF kind = "blob" THEN "tmpfile" ELSE "transcribe"
          /\ result' = result
          /\ log' = Logged([ev |-> "transcriber.raise"])
       \/ \* is_transcription_valid raises
          /\ pc = "gate"
          /\ tr.success
          /\ result' = [result EXCEPT !.transcription = tr]
          /\ log' = Logged([ev |-> "transcriber.raise"])
       \/ \* generate_feedback raises
          /\ pc = "feedback"
          /\ result' = AppendStep(result, "feedback_started")
          /\ log' = log \o <<[ev |-> "feedback.call", text |-> tr.text, context |-> result.context],
                             [ev |-> "feedback.raise"]>>
       \/ \* create_reaction_video raises
          /\ pc = "avatar"
          /\ AvatarAvailable(scorer)
          /\ result' = AppendStep(result, "avatar_started")
          /\ log' = log \o <<[ev |-> "avatar.call", feedback_data |-> result.feedback],
                             [ev |-> "avatar.raise"]>>
    /\ pc' = "except"
    /\ UNCHANGED <<scorer, kind, tr, tmp, disk, ncalls, othersOfPipe>>

(* --------------- get_processing_summary on a returned result ----------- *)
ExportIdle ==
    /\ summary = [of |-> 0]
    /\ saved = [of |-> 0]
    /\ fs = [dirs |-> {}, files |-> <<>>]

\* str(e) of the AttributeError raised by `None.get(...)`
NoneGetError == "'NoneType' object has no attribute 'get'"

\* keys of the summary get_processing_summary builds for `results`
SummaryKeys(results) ==
    {"success", "timestamp", "audio_file", "processing_steps", "error"}
    \cup (IF results.transcription.success THEN {"transcription"} ELSE {})
    \cup (IF results.feedback.success THEN {"feedback"} ELSE {})
    \cup (IF results.avatar_video # NoneRec THEN {"avatar_video"} ELSE {})

\* ArgumentScorer.get_processing_summary: results.get("transcription", {})
\* and results.get("feedback", {}) yield None when the key holds None, and
\* the .get("success") on it raises AttributeError
get_processing_summary(results) ==
    IF results.transcription = NoneRec \/ results.feedback = NoneRec
    THEN [raised |-> TRUE, error |-> NoneGetError]
    ELSE [raised |-> FALSE,
          value |-> [k \in SummaryKeys(results) |->
             CASE k = "success" -> results.success
               [] k = "timestamp" -> results.timestamp
               [] k = "audio_file" -> results.audio_file
               [] k = "processing_steps" -> Len(results.processing_steps)
               [] k = "error" -> results.error
               [] k = "transcription" ->
                    [text_length |-> Len(results.transcription.text),
                     language |-> results.transcription.language,
                     duration |-> results.transcription.duration]
               [] k = "feedback" ->
                    [score |-> results.feedback.score,
                     emojis |-> results.feedback.emojis,
                     comment |-> results.feedback.comment]
               [] k = "avatar_video" ->
                    [enabled |-> results.avatar_video.success,
                     status |-> results.avatar_video.status,
                     video_id |-> Get(results.avatar_video, "video_id")]]]

\* get_processing_summary is called with the result the last call returned
GetProcessingSummary ==
    /\ pc = "done"
    /\ summary.of # ncalls
    /\ summary' = [of |-> ncalls, out |-> get_processing_summary(result)]
    /\ UNCHANGED <<saved, fs, othersOfExport>>

(* ------------------- save_results on a returned result ----------------- *)
\* JSON texts, as the tree json.dump writes and json.load reads
JNull == [j |-> "null"]
JBool(b) == [j |-> IF b THEN "true" ELSE "false"]
JString(s) == [j |-> "string", v |-> s]
JNumber(x) == [j |-> "number", v |-> x]
JArray(items) == [j |-> "array", v |-> items]
JObject(members) == [j |-> "object", v |-> members]
\* an optional string / number: None is written as null
JOptString(s) == IF s = None THEN JNull ELSE JString(s)
JStrings(seq) == JArray([i \in 1..Len(seq) |-> JString(seq[i])])
\* a dictionary whose values are strings, booleans or None
JFlat(d) ==
    JObject([k \in DOMAIN d |->
                IF k = "success" THEN JBool(d[k]) ELSE JOptString(d[k])])

\* json knows dict, list, str, int, float, bool and None; an object of
\* another class makes json.dump raise TypeError
IsPlainDict(x) == "class" \notin DOMAIN x
JsonSerializable(results) ==
    results.transcription = NoneRec
    \/ \A i \in 1..Len(results.transcription.segments) :
           IsPlainDict(results.transcription.segments[i])
NotSerializableError == "Object of type TranscriptionSegment is not JSON serializable"

\* a segment dictionary: a numeric id and strings
JSegment(s) ==
    JObject([k \in DOMAIN s |-> IF k = "id" THEN JNumber(s[k]) ELSE JOptString(s[k])])
JTranscription(t) ==
    IF t = NoneRec THEN JNull
    ELSE JObject([k \in DOMAIN t |->
            CASE k = "text" -> JString(t.text)
              [] k = "segments" -> JArray([i \in 1..Len(t.segments) |-> JSegment(t.segments[i])])
              [] k = "success" -> JBool(t.success)
              [] OTHER -> JOptString(t[k])])
JFeedback(f) ==
    IF f = NoneRec THEN JNull
    ELSE JObject([k \in DOMAIN f |->
            CASE k = "score" -> JNumber(f.score)
              [] k = "emojis" -> JString(f.emojis)
              [] k = "comment" -> JString(f.comment)
              [] k = "success" -> JBool(f.success)
              [] OTHER -> JOptString(f[k])])
JAvatar(a) == IF a = NoneRec THEN JNull ELSE JFlat(a)

\* the text json.dump(results) writes for a serializable Pipeline Result
JsonDump(results) ==
    JObject([k \in DOMAIN results |->
        CASE k = "timestamp" -> JString(results.timestamp)
          [] k = "transcription" -> JTranscription(results.transcription)
          [] k = "feedback" -> JFeedback(results.feedback)
          [] k = "avatar_video" -> JAvatar(results.avatar_video)
          [] k = "success" -> JBool(results.success)
          [] k = "processing_steps" -> JStrings(results.processing_steps)
          [] OTHER -> JOptString(results[k])])

\* json.load: the Python value of a JSON text
RECURSIVE JsonLoad(_)
JsonLoad(n) ==
    CASE n.j = "null" -> None
      [] n.j = "true" -> TRUE
      [] n.j = "false" -> FALSE
      [] n.j = "array" -> [i \in 1..Len(n.v) |-> JsonLoad(n.v[i])]
      [] n.j = "object" -> [k \in DOMAIN n.v |-> JsonLoad(n.v[k])]
      [] OTHER -> n.v

\* output_dir arguments and values of datetime.now().strftime("%Y%m%d_%H%M%S")
OutputDirs == {"assets"}
SaveStamps == {"20240101_120000"}
\* f"argument_results_{timestamp}.json" under output_dir
ResultsPath(output_dir, timestamp) ==
    output_dir \o "/" \o "argument_results_" \o timestamp \o ".json"
\* open(filepath, 'w') and what was written until the file was closed
WriteFile(files, filepath, content) ==
    [q \in DOMAIN files \cup {filepath} |-> IF q = filepath THEN content ELSE files[q]]

\* ArgumentScorer.save_results with the result the last call returned: the
\* directory is made, the file opened for writing, json.dump writes the
\* text or raises TypeError part-way (the exception is logged and re-raised,
\* the file stays as far as it was written)
SaveResults ==
    /\ pc = "done"
    /\ saved.of # ncalls
    /\ \E output_dir \in OutputDirs, timestamp \in SaveStamps :
          LET filepath == ResultsPath(output_dir, timestamp)
          IN IF JsonSerializable(result)
             THEN /\ fs' = [dirs |-> fs.dirs \cup {output_dir},
                            files |-> WriteFile(fs.files, filepath,
                                        [complete |-> TRUE, text |-> JsonDump(result)])]
                  /\ saved' = [of |-> ncalls, raised |-> FALSE, path |-> filepath,
                               output_dir |-> output_dir, timestamp |-> timestamp]
             ELSE /\ fs' = [dirs |-> fs.dirs \cup {output_dir},
                            files |-> WriteFile(fs.files, filepath, [complete |-> FALSE])]
                  /\ saved' = [of |-> ncalls, raised |-> TRUE, error |-> NotSerializableError,
                               output_dir |-> output_dir, timestamp |-> timestamp]
    /\ UNCHANGED <<summary, othersOfExport>>

(* ------------- direct calls of the avatar client, step by step --------- *)
AvatarIdle ==
    /\ gen = NoneRec /\ aPc = "off" /\ aOp = NoneRec /\ aOut = NoneRec
    /\ aNet = <<>> /\ aSleeps = <<>> /\ aPoll = NoneRec /\ aStart = 0
    /\ now = 0 /\ aCalls = 0

\* a generator and a scorer built from the same keys
InitAvatar ==
    /\ \E enable_avatar \in BOOLEAN, key \in {None, "heygen-key"}, aid \in {None, "avatar-1"} :
          /\ gen = HeyGenAvatarGeneratorInit(key, aid)
          /\ scorer = ArgumentScorerInit(enable_avatar, key, aid)
    /\ aPc = "idle" /\ aOp = NoneRec /\ aOut = NoneRec
    /\ aNet = <<>> /\ aSleeps = <<>> /\ aPoll = NoneRec /\ aStart = 0
    /\ now = 0 /\ aCalls = 0
    /\ pc = "off" /\ kind = None /\ result = NoneRec
    /\ tr = NoneRec /\ exc = None /\ tmp = NoTmp /\ disk = {} /\ log = <<>>
    /\ ncalls = 0

\* client calls started in one behaviour
MaxAvatarCalls == 2
\* arguments of the calls
VideoIds == {"video-1"}
AvatarIdArgs == {None, "avatar-2"}
Scripts == {<<"N","i","c","e","!">>}
ReactionFeedbacks ==
    { [score |-> 820, emojis |-> <<"fire">>, comment |-> <<"B","o","l","d","!">>, success |-> TRUE],
      [reasoning |-> "no score, no comment"] }
\* max_wait_time and poll_interval, in clock ticks
WaitTimes == {0, 3}
PollIntervals == {0, 2, 4}
\* ticks one status request takes (an HTTP round trip takes time)
PollDurations == {1, 2}

AvatarCallCanStart == aPc \in {"idle", "returned"} /\ aCalls < MaxAvatarCalls

\* a call that runs to its return in one step
AvatarReturns(op, out, net) ==
    /\ aOp' = op
    /\ aOut' = out
    /\ aNet' = net
    /\ aSleeps' = <<>>
    /\ aPoll' = NoneRec
    /\ aPc' = "returned"
    /\ aCalls' = aCalls + 1
    /\ UNCHANGED <<gen, aStart, now, othersOfAvatar>>

CallGenerateAvatarVideo ==
    /\ AvatarCallCanStart
    /\ \E script_text \in Scripts, avatar_id \in AvatarIdArgs, post \in AvatarPosts :
          AvatarReturns([name |-> "generate_avatar_video", script_text |-> script_text,
                         avatar_id |-> avatar_id, remote |-> post],
                        generate_avatar_video(gen, script_text, avatar_id, post),
                        GenerateVideoRequest(gen, script_text, avatar_id))

CallCreateReactionVideo ==
    /\ AvatarCallCanStart
    /\ \E feedback_data \in ReactionFeedbacks, avatar_id \in AvatarIdArgs, post \in AvatarPosts :
          AvatarReturns([name |-> "create_reaction_video", feedback_data |-> feedback_data,
                         avatar_id |-> avatar_id, remote |-> post],
                        create_reaction_video(gen, feedback_data, avatar_id, post),
                        CreateReactionVideoRequest(gen, feedback_data, avatar_id))

CallCheckVideoStatus ==
    /\ AvatarCallCanStart
    /\ \E video_id \in VideoIds, get \in StatusGets :
          AvatarReturns([name |-> "check_video_status", video_id |-> video_id, remote |-> get],
                        check_video_status(gen, video_id, get),
                        CheckStatusRequest(gen, video_id))

CallGetAvatarVideoStatus ==
    /\ AvatarCallCanStart
    /\ \E video_id \in VideoIds, get \in StatusGets :
          AvatarReturns([name |-> "get_avatar_video_status", video_id |-> video_id, remote |-> get],
                        get_avatar_video_status(scorer, video_id, get),
                        AvatarVideoStatusRequest(scorer, video_id))

\* wait_for_completion up to the loop: a disabled generator returns at once
WaitForCompletionStart ==
    /\ AvatarCallCanStart
    /\ \E video_id \in VideoIds, max_wait_time \in WaitTimes, poll_interval \in PollIntervals :
          aOp' = [name |-> "wait_for_completion", video_id |-> video_id,
                  max_wait_time |-> max_wait_time, poll_interval |-> poll_interval]
    /\ aNet' = <<>>
    /\ aSleeps' = <<>>
    /\ aPoll' = NoneRec
    /\ aCalls' = aCalls + 1
    /\ aStart' = now
    /\ IF ~gen.enabled
       THEN aOut' = get_disabled_response /\ aPc' = "returned"
       ELSE aOut' = NoneRec /\ aPc' = "loop"
    /\ UNCHANGED <<gen, now, othersOfAvatar>>

\* the loop test and, when it passes, one status check and the branch on it
WaitForCompletionPoll ==
    /\ aPc = "loop"
    /\ IF WaitGoesOn(now - aStart, aOp.max_wait_time)
       THEN \E get \in StatusGets, d \in PollDurations :
               LET status_result == check_video_status(gen, aOp.video_id, get)
               IN /\ aNet' = aNet \o CheckStatusRequest(gen, aOp.video_id)
                  /\ now' = now + d
                  /\ aPoll' = status_result
                  /\ IF WaitVerdict(status_result).ends
                     THEN aOut' = WaitVerdict(status_result).value /\ aPc' = "returned"
                     ELSE aOut' = aOut /\ aPc' = "sleep"
       ELSE /\ aOut' = WaitTimeout(aOp.max_wait_time)
            /\ aPc' = "returned"
            /\ UNCHANGED <<aNet, now, aPoll>>
    /\ UNCHANGED <<gen, aOp, aSleeps, aStart, aCalls, othersOfAvatar>>

\* time.sleep(poll_interval), then back to the loop test
WaitForCompletionSleep ==
    /\ aPc = "sleep"
    /\ now' = now + aOp.poll_interval
    /\ aSleeps' = Append(aSleeps, aOp.poll_interval)
    /\ aPc' = "loop"
    /\ UNCHANGED <<gen, aOp, aOut, aNet, aPoll, aStart, aCalls, othersOfAvatar>>

(* ---------------- direct calls of generate_reaction_script ------------- *)
\* scores on both sides of every band limit, comments with and without the
\* replaced marks
ScriptScores == {100, 250, 399, 400, 405, 599, 600, 799, 800, 820, 990, 1000}
ScriptComments ==
    { <<"G","r","e","a","t"," ","j","o","b","!","!">>,
      <<"W","a","i","t",".",".","."," ","r","e","a","l","l","y","?">>,
      <<"B","o","l","d"," ","t","a","k","e"," ","b","u","t"," ","y","o","u"," ","s","o","l","d"," ","i","t","!">>,
      <<"o","k">>,
      <<"!">>,
      <<".",".",".">>,
      <<".",".",".",".","!">>,
      <<"N","o"," ","w","a","y",".",".","."," ","Y","e","s"," ","w","a","y","!",".",".",".">>,
      <<"W","h","a","t","?","!"," ","H","m","m",".","."," ","n","o",".">> }
ScriptFeedbacks ==
    { [score |-> s, emojis |-> <<"fire">>, comment |-> c] : s \in ScriptScores, c \in ScriptComments }
    \cup { [emojis |-> <<"fire">>, comment |-> c] : c \in ScriptComments }
    \cup { [score |-> s, emojis |-> <<"fire">>] : s \in ScriptScores }

InitScript ==
    /\ gen = NoneRec /\ aPc = "idle" /\ aOp = NoneRec /\ aOut = NoneRec
    /\ aNet = <<>> /\ aSleeps = <<>> /\ aPoll = NoneRec /\ aStart = 0
    /\ now = 0 /\ aCalls = 0

CallGenerateReactionScript ==
    /\ aPc = "idle"
    /\ \E feedback_data \in ScriptFeedbacks :
          /\ aOp' = [name |-> "generate_reaction_script", feedback_data |-> feedback_data]
          /\ aOut' = [script |-> generate_reaction_script(feedback_data)]
    /\ aPc' = "returned"
    /\ aCalls' = aCalls + 1
    /\ UNCHANGED <<gen, aNet, aSleeps, aPoll, aStart, now, othersOfAvatar>>

(* ============================ app.py (Streamlit) ======================= *)
\* st.session_state.scorer is the variable scorer; the other three keys of
\* the session state are the fields of session.  A script run (main) is one
\* action, except the run of the Analyze button, which is split at the call
\* of scorer.process_audio_blob: the pipeline's own steps run in between.
AppIdle ==
    /\ env = NoneRec /\ session = NoneRec /\ view = {} /\ upload = None
    /\ appCalls = <<>>

\* init_session_state: keys that are missing get their defaults
init_session_state(s) ==
    IF s = NoneRec
    THEN [processing_results |-> NoneRec, audio_uploaded |-> FALSE,
          video_status_checked |-> FALSE]
    ELSE s

\* initialize_scorer building a scorer whatever the environment holds
initialize_scorer_IgnoresKey(e) ==
    ArgumentScorerInit(e.HEYGEN_API_KEY # None /\ e.HEYGEN_AVATAR_ID # None,
                       e.HEYGEN_API_KEY, e.HEYGEN_AVATAR_ID)

\* initialize_scorer: None without OPENAI_API_KEY; the avatar is enabled
\* only when both HeyGen variables are set
initialize_scorer(e) ==
    IF e.OPENAI_API_KEY = None THEN NoneRec
    ELSE ArgumentScorerInit(e.HEYGEN_API_KEY # None /\ e.HEYGEN_AVATAR_ID # None,
                            e.HEYGEN_API_KEY, e.HEYGEN_AVATAR_ID)

\* main: `if st.session_state.scorer is None: ... = initialize_scorer()`
ScorerAfterInit(sc, e) == IF sc = NoneRec THEN initialize_scorer(e) ELSE sc

\* what a run renders when the scorer is None: the header, the error of
\* initialize_scorer, the sidebar, the configuration error and the setup
\* instructions; main returns there
SetupView ==
    {"header", "error:openai_key_not_found", "sidebar",
     "error:not_properly_configured", "setup_instructions"}

IsButton(el) == el \in {"button:check_video", "button:try_again",
                        "button:save_results", "button:view_details",
                        "button:upload_analyze"}

\* display_results: the elements in the order they are rendered
display_results(results) ==
    IF results = NoneRec THEN <<>>
    ELSE IF ~results.success THEN <<"results_header", "error:analysis_failed">>
    ELSE <<"results_header", "analysis_complete">>
         \o (IF results.transcription.success THEN <<"transcript">> ELSE <<>>)
         \o (IF results.feedback.success THEN <<"feedback">> ELSE <<>>)
         \o (IF results.avatar_video.success
             THEN <<"avatar_generating", "button:check_video">>
             ELSE IF results.avatar_video.status = "disabled"
                  THEN <<"avatar_disabled_note">> ELSE <<>>)
         \o <<"share_header", "button:try_again", "button:save_results",
              "button:view_details">>

\* index of the first button of els whose key the run used already
\* (st.button raises there), Len(els) + 1 if there is none
RECURSIVE FirstDuplicate(_, _, _)
FirstDuplicate(els, used, i) ==
    IF i > Len(els) THEN i
    ELSE IF IsButton(els[i]) /\ els[i] \in used THEN i
    ELSE FirstDuplicate(els, used, i + 1)

\* the elements of els that get rendered after those of used
Rendered(els, used) ==
    {els[i] : i \in 1..(FirstDuplicate(els, used, 1) - 1)}

\* handle_audio_upload up to the Analyze button
UploadElements(file) ==
    {"uploader"} \cup (IF file = None THEN {}
                       ELSE {"file_info", "context_input", "button:upload_analyze"})

\* main, past the configuration test, up to the end of handle_audio_upload
FlowView(s, file) ==
    {"header", "sidebar"}
    \cup Rendered(display_results(s.processing_results), {})
    \cup {"recorder"} \cup UploadElements(file)

\* a whole run of main in which no button reports a click
main(s, sc, file) ==
    IF sc = NoneRec THEN SetupView ELSE FlowView(s, file) \cup {"footer"}

(* ------------------------- environment and inputs ---------------------- *)
Environments ==
    [OPENAI_API_KEY : {None, "sk-key"}, HEYGEN_API_KEY : {None, "heygen-key"},
     HEYGEN_AVATAR_ID : {None, "avatar-1"}]
UploadNames == {"argument.wav"}
\* st.text_input returns the empty string when nothing was typed
AppContexts == {"", "Pineapple on pizza debate"}

InitApp ==
    /\ env \in Environments
    /\ session = NoneRec /\ view = {} /\ upload = None /\ appCalls = <<>>
    /\ scorer = NoneRec /\ pc = "idle" /\ kind = None /\ result = NoneRec
    /\ tr = NoneRec /\ exc = None /\ tmp = NoTmp /\ disk = {} /\ log = <<>>
    /\ ncalls = 0

AppWaits == pc = "idle"

\* a script run without a click: the first load of the page, or a rerun
AppRun ==
    /\ AppWaits
    /\ session' = init_session_state(session)
    /\ scorer' = ScorerAfterInit(scorer, env)
    /\ view' = main(session', scorer', upload)
    /\ UNCHANGED <<env, upload, appCalls, kind, result, tr, exc, tmp, disk, log,
                   ncalls, pc, othersOfApp>>

\* the user puts a file into the uploader or takes it out; the script reruns
AppSelectFile ==
    /\ AppWaits
    /\ "uploader" \in view
    /\ \E file \in (UploadNames \cup {None}) \ {upload} : upload' = file
    /\ scorer' = ScorerAfterInit(scorer, env)
    /\ view' = main(session, scorer', upload')
    /\ UNCHANGED <<env, session, appCalls, kind, result, tr, exc, tmp, disk, log,
                   ncalls, pc, othersOfApp>>

\* the Analyze button is clicked: main runs up to process_uploaded_audio,
\* which returns at once without a scorer, else calls
\* scorer.process_audio_blob(audio_data, uploaded_file.name, context)
AppAnalyze ==
    /\ AppWaits
    /\ "button:upload_analyze" \in view
    /\ ncalls < MaxCalls
    /\ scorer' = ScorerAfterInit(scorer, env)
    /\ IF scorer' = NoneRec
       THEN /\ view' = SetupView
            /\ UNCHANGED <<appCalls, kind, result, tr, exc, tmp, log, ncalls, pc,
                           summary, saved>>
       ELSE \E context \in AppContexts :
               /\ view' = FlowView(session, upload) \cup {"processing_status"}
               /\ appCalls' = Append(appCalls,
                      [call |-> "process_audio_blob", filename |-> upload])
               /\ kind' = "blob"
               /\ result' = AppendStep(NewResult(ncalls + 1, upload, context),
                                       "transcription_started")
               /\ pc' = "tmpfile"
               /\ ncalls' = ncalls + 1
               /\ tr' = NoneRec
               /\ exc' = None
               /\ tmp' = NoTmp
               /\ log' = <<[ev |-> "transcriber.call"]>>
               /\ summary' = [of |-> 0]
               /\ saved' = [of |-> 0]
    /\ UNCHANGED <<env, session, upload, disk, fs, validVars, feedbackVars, avatarVars,
                   concVars, protoVars>>

\* process_audio_blob returned: the result is stored in the session state,
\* the status is cleared and the result displayed below the upload; a button
\* key the run has used already raises, which the except clause reports
AppAnalyzeDone ==
    /\ pc = "done"
    /\ "processing_status" \in view
    /\ session' = [session EXCEPT !.processing_results = result,
                                  !.audio_uploaded = TRUE]
    /\ LET before == view \ {"processing_status"}
           els == display_results(result)
       IN view' = before \cup Rendered(els, before)
                  \cup (IF FirstDuplicate(els, before, 1) <= Len(els)
                        THEN {"error:processing_failed"} ELSE {})
                  \cup {"footer"}
    /\ pc' = "idle"
    /\ UNCHANGED <<env, upload, appCalls, scorer, kind, result, tr, exc, tmp, disk,
                   log, ncalls, othersOfApp>>

\* a click reports True in the rerun only if the rerun renders the button
\* again, which display_results does from the stored result
ClickArrives(button, s) ==
    button \in Rendered(display_results(s.processing_results), {})

\* a Try Again that forgets the audio-uploaded flag
ClearedSession_KeepsFlag(s) == [s EXCEPT !.processing_results = NoneRec]

\* `processing_results = None`, `audio_uploaded = False`
ClearedSession(s) ==
    [s EXCEPT !.processing_results = NoneRec, !.audio_uploaded = FALSE]

\* Try Again clears the stored result if the click arrives
TryAgainClears(s) == ClickArrives("button:try_again", s)

\* Try Again is clicked: the rerun reaches the button inside
\* display_results, which clears the stored result and the flag and calls
\* st.rerun(); the scorer is not touched
AppTryAgain ==
    /\ AppWaits
    /\ "button:try_again" \in view
    /\ session' = IF TryAgainClears(session) THEN ClearedSession(session) ELSE session
    /\ view' = main(session', scorer, upload)
    /\ UNCHANGED <<env, upload, appCalls, scorer, kind, result, tr, exc, tmp, disk,
                   log, ncalls, pc, othersOfApp>>

\* save_results_to_file: json.dumps(results) and the download button, or
\* the error the except clause reports
save_results_to_file(results) ==
    IF JsonSerializable(results)
    THEN {"button:download_results", "download_ready"}
    ELSE {"error:download_failed"}

\* Save Results is clicked: the rerun prepares the download
AppSaveResults ==
    /\ AppWaits
    /\ "button:save_results" \in view
    /\ view' = main(session, scorer, upload)
               \cup (IF ClickArrives("button:save_results", session)
                     THEN save_results_to_file(session.processing_results)
                     ELSE {})
    /\ UNCHANGED <<env, session, upload, appCalls, scorer, kind, result, tr, exc, tmp,
                   disk, log, ncalls, pc, othersOfApp>>

\* View Details is clicked: display_detailed_results renders the expander
AppViewDetails ==
    /\ AppWaits
    /\ "button:view_details" \in view
    /\ view' = main(session, scorer, upload)
               \cup (IF ClickArrives("button:view_details", session)
                     THEN {"details"} ELSE {})
    /\ UNCHANGED <<env, session, upload, appCalls, scorer, kind, result, tr, exc, tmp,
                   disk, log, ncalls, pc, othersOfApp>>

\* check_avatar_video_status, after get_avatar_video_status returned: the
\* element shown for the status result
StatusElement(status_result) ==
    IF ~status_result.success THEN "error:status_check_failed"
    ELSE IF status_result.status = "completed"
         THEN IF status_result.video_url # None THEN "video" ELSE "warning:no_video_url"
    ELSE IF status_result.status \in {"generating", "pending"} THEN "info:still_generating"
    ELSE IF status_result.status = "failed" THEN "error:video_failed"
    ELSE "warning:unknown_status"

\* a status check that answers from the stored avatar record
StatusQuery_Cached(sc, video_id) == <<>>

\* the request a click on Check Video Status sends
StatusQuery(sc, video_id) == AvatarVideoStatusRequest(sc, video_id)

MaxChecks == 2
StatusChecks ==
    Cardinality({i \in 1..Len(appCalls) : appCalls[i].call = "get_avatar_video_status"})

\* Check Video Status is clicked: the rerun calls
\* scorer.get_avatar_video_status(video_id) and shows what it returned;
\* nothing is written to the session state
AppCheckVideoStatus ==
    /\ AppWaits
    /\ "button:check_video" \in view
    /\ StatusChecks < MaxChecks
    /\ IF ClickArrives("button:check_video", session)
       THEN \E get \in StatusGets :
               LET video_id == session.processing_results.avatar_video.video_id
               IN /\ appCalls' = Append(appCalls,
                         [call |-> "get_avatar_video_status", video_id |-> video_id,
                          request |-> StatusQuery(scorer, video_id)])
                  /\ view' = main(session, scorer, upload)
                             \cup {StatusElement(get_avatar_video_status(scorer, video_id, get))}
       ELSE /\ view' = main(session, scorer, upload)
            /\ appCalls' = appCalls
    /\ UNCHANGED <<env, session, upload, scorer, kind, result, tr, exc, tmp, disk, log,
                   ncalls, pc, othersOfApp>>

(* ============ two calls of process_audio_blob on one scorer ============ *)
ConcIdle == shScorer = NoneRec /\ shDisk = {} /\ calls = <<>>
ProtoIdle == character = None /\ questions = <<>> /\ page = {}

\* a temporary file name that is the same for every call
TempName_Fixed(d) == 1

\* tempfile.NamedTemporaryFile: a name no file in the directory has
TempName(d) == CHOOSE n \in 1..(Cardinality(d) + 1) : n \notin d

\* the local variables of a call that has not run a statement yet
CallEntered == [pc |-> "start", result |-> NoneRec, tr |-> NoneRec, exc |-> None, tmp |-> NoTmp]

\* One step of process_audio_blob for the call with arguments and remote
\* answers inp and local variables c, on scorer sc and directory d: the
\* statements of ProcessStart, TempFileCreate, TranscribeAudio,
\* TempFileCleanup, Gate, Feedback, Avatar and HandleException
BlobStep(c, inp, sc, d) ==
    CASE c.pc = "start" ->
           [c |-> [c EXCEPT !.result = AppendStep(NewResult(inp.timestamp, inp.filename, inp.context),
                                                  "transcription_started"),
                            !.pc = "tmpfile"],
            d |-> d]
      [] c.pc = "tmpfile" ->
           IF inp.tmp = "written"
           THEN [c |-> [c EXCEPT !.tmp = [name |-> TempName(d), path |-> TempName(d)],
                                 !.pc = "transcribe"],
                 d |-> d \cup {TempName(d)}]
           ELSE IF inp.tmp = "write_error"
           THEN [c |-> [c EXCEPT !.tmp = [name |-> TempName(d), path |-> 0],
                                 !.tr = TranscriptionFailure(inp.tmp_error),
                                 !.pc = "gate"],
                 d |-> d \cup {TempName(d)}]
           ELSE [c |-> [c EXCEPT !.tr = TranscriptionFailure(inp.tmp_error), !.pc = "gate"],
                 d |-> d]
      [] c.pc = "transcribe" ->
           [c |-> [c EXCEPT !.tr = IF c.tmp.path \notin d
                                   THEN TranscriptionFailure("Audio file not found: " \o inp.filename)
                                   ELSE IF inp.whisper.kind = "error"
                                   THEN TranscriptionFailure(inp.whisper.err)
                                   ELSE TranscriptionSuccess(inp.whisper.transcript),
                            !.pc = "cleanup"],
            d |-> d]
      [] c.pc = "cleanup" ->
           [c |-> [c EXCEPT !.pc = "gate"], d |-> d \ {c.tmp.path}]
      [] c.pc = "gate" ->
           IF GatePasses(c.tr)
           THEN [c |-> [c EXCEPT !.result = AppendStep([c.result EXCEPT !.transcription = c.tr],
                                                       "transcription_completed"),
                                 !.pc = "feedback"],
                 d |-> d]
           ELSE [c |-> [c EXCEPT !.result = [c.result EXCEPT !.transcription = c.tr],
                                 !.exc = GateError(c.tr),
                                 !.pc = "except"],
                 d |-> d]
      [] c.pc = "feedback" ->
           LET feedback_result == generate_feedback(inp.chat, inp.choice)
               stored == [AppendStep(c.result, "feedback_started") EXCEPT !.feedback = feedback_result]
           IN IF FeedbackAborts(feedback_result)
              THEN [c |-> [c EXCEPT !.result = stored,
                                    !.exc = "Feedback generation failed: " \o feedback_result.error,
                                    !.pc = "except"],
                    d |-> d]
              ELSE [c |-> [c EXCEPT !.result = AppendStep(stored, "feedback_completed"),
                                    !.pc = "avatar"],
                    d |-> d]
      [] c.pc = "avatar" ->
           [c |-> [c EXCEPT !.result =
                       IF AvatarAvailable(sc)
                       THEN MarkSuccessful(AvatarStageSteps(c.result,
                                create_reaction_video(sc.avatar_generator, c.result.feedback,
                                                      None, inp.post)))
                       ELSE MarkSuccessful([c.result EXCEPT !.avatar_video = DisabledPlaceholder]),
                            !.pc = "done"],
            d |-> d]
      [] c.pc = "except" ->
           [c |-> [c EXCEPT !.result = AppendStep([c.result EXCEPT !.error = c.exc],
                                                  "pipeline_failed: " \o c.exc),
                            !.pc = CaughtPc],
            d |-> d]

\* what the call returns when no other call runs: its steps one after
\* the other, from directory d
RECURSIVE RunAlone(_, _, _, _)
RunAlone(c, inp, sc, d) ==
    IF c.pc = "done" THEN c.result
    ELSE RunAlone(BlobStep(c, inp, sc, d).c, inp, sc, BlobStep(c, inp, sc, d).d)

\* arguments and remote answers of the two calls: different payloads
ConcFilenames == <<"first.webm", "second.webm">>
ConcTmpOutcomes == {"written", "write_error", "create_error"}
ConcWhisper ==
    { [kind |-> "text",
       transcript |-> [text |-> <<"C","a","t","s"," ","a","r","e"," ","b","e","t","t","e","r"," ","t","h","a","n"," ","d","o","g","s">>,
                       language |-> "english", duration |-> "2.0", segments |-> <<>>]],
      [kind |-> "text",
       transcript |-> [text |-> <<"o","k">>, language |-> "english", duration |-> "0.4",
                       segments |-> <<>>]],
      [kind |-> "error", err |-> "Connection error."] }
ConcChats ==
    { r \in PipeChatResponses : r.kind = "error" \/ (r.valid_json /\ r.data.score <= 1000) }
ConcPosts == { p \in AvatarPosts : p.kind = "error" \/ p.video_id # None }
ConcInputs(t) ==
    [filename : {ConcFilenames[t]}, context : {None}, timestamp : {t},
     tmp : ConcTmpOutcomes, tmp_error : {"[Errno 28] No space left on device"},
     whisper : ConcWhisper, chat : ConcChats, choice : {1}, post : ConcPosts]

InitConc ==
    /\ \E key \in {None, "heygen-key"} : shScorer = ArgumentScorerInit(TRUE, key, "avatar-1")
    /\ shDisk = {}
    /\ \E i1 \in ConcInputs(1), i2 \in ConcInputs(2) :
          calls = <<[inp |-> i1, c |-> CallEntered], [inp |-> i2, c |-> CallEntered]>>

\* the next statement of call t runs
ConcStep(t) ==
    /\ calls[t].c.pc # "done"
    /\ LET s == BlobStep(calls[t].c, calls[t].inp, shScorer, shDisk)
       IN /\ calls' = [calls EXCEPT ![t].c = s.c]
          /\ shDisk' = s.d
    /\ UNCHANGED <<shScorer, othersOfConc>>

FirstCallSteps == ConcStep(1)
SecondCallSteps == ConcStep(2)

(* ===================== src/app.py (the prototype) ====================== *)
\* CHARACTER_PROMPTS, the first three of its nine entries
Characters == <<"CEO Boss", "Partner in a Breakup", "Strict Officer">>
CHARACTER_PROMPTS ==
    [c \in {Characters[i] : i \in 1..Len(Characters)} |->
        CASE c = "CEO Boss" ->
               <<"Why do you think you deserve a raise?",
                 "Why should I let you take time off next week?",
                 "Convince me to not cancel your project.">>
          [] c = "Partner in a Breakup" ->
               <<"Why do you think we should stay together?",
                 "Tell me why it wasn't your fault this time.",
                 "Convince me to forgive you.">>
          [] c = "Strict Officer" ->
               <<"Why were you driving so fast?",
                 "Tell me why I shouldn't give you a ticket.",
                 "Convince me you're not breaking the rules.">>]

\* what random.choice(CHARACTER_PROMPTS[character]) can return
Choices(c) == {CHARACTER_PROMPTS[c][i] : i \in 1..Len(CHARACTER_PROMPTS[c])}

\* a render that draws a question every time
CachedQuestion_Redrawn(qs, c, q) == [qs EXCEPT ![c] = q]

\* `if f"selected_question_{character}" not in st.session_state:` the drawn
\* question q is stored, else the stored one stays
CachedQuestion(qs, c, q) == IF qs[c] = None THEN [qs EXCEPT ![c] = q] ELSE qs

\* the shuffle button: the key of the selected character is assigned
Reroll(qs, c, q) == [qs EXCEPT ![c] = q]

\* main without a click of Submit: the challenge shown
ProtoPage(qs, c, submitted) ==
    [character |-> c, challenge |-> qs[c], submitted |-> submitted,
     question_info |-> IF submitted THEN qs[c] ELSE None]

InitProto ==
    /\ character = None
    /\ questions = [c \in DOMAIN CHARACTER_PROMPTS |-> None]
    /\ page = NoneRec

\* st.selectbox: the first option until the user picks one
Selected == IF character = None THEN Characters[1] ELSE character

\* a script run without a button click: the first load, or a rerun caused
\* by the difficulty radio or the video checkbox
ProtoRun ==
    /\ character' = Selected
    /\ \E q \in Choices(character') : questions' = CachedQuestion(questions, character', q)
    /\ page' = ProtoPage(questions', character', FALSE)
    /\ UNCHANGED othersOfProto

\* the user picks another character; the script reruns
ProtoSelect ==
    /\ page # NoneRec
    /\ \E c \in DOMAIN CHARACTER_PROMPTS \ {character} : character' = c
    /\ \E q \in Choices(character') : questions' = CachedQuestion(questions, character', q)
    /\ page' = ProtoPage(questions', character', FALSE)
    /\ UNCHANGED othersOfProto

\* "Get a different question" is clicked: the rerun assigns a drawn
\* question to the selected character's key and calls st.rerun()
ProtoShuffle ==
    /\ page # NoneRec
    /\ \E q \in Choices(character) : questions' = Reroll(questions, character, q)
    /\ page' = ProtoPage(questions', character, FALSE)
    /\ UNCHANGED <<character, othersOfProto>>

\* "Submit My Argument" is clicked: the rerun shows the selection again
ProtoSubmit ==
    /\ page # NoneRec
    /\ \E q \in Choices(character) : questions' = CachedQuestion(questions, character, q)
    /\ page' = ProtoPage(questions', character, TRUE)
    /\ UNCHANGED <<character, othersOfProto>>

(* --------------------------- specifications ---------------------------- *)
Init == InitPipe /\ ValidIdle /\ FeedbackIdle /\ AvatarIdle /\ ExportIdle /\ AppIdle /\ ConcIdle /\ ProtoIdle

Next ==
    \/ ProcessStart
    \/ TempFileCreate
    \/ TranscribeAudio
    \/ TempFileCleanup
    \/ Gate
    \/ Feedback
    \/ Avatar
    \/ HandleException

\* the pipeline with this repository's three clients
Spec == Init /\ [][Next]_vars

\* the pipeline with clients that may also raise
NextFaulty == Next \/ ClientRaises
SpecFaulty == Init /\ [][NextFaulty]_vars

\* the pipeline, each returned result summarized and saved by its caller
NextExport == Next \/ GetProcessingSummary \/ SaveResults
SpecExport == Init /\ [][NextExport]_vars

\* direct calls of is_transcription_valid
InitSpecValid == InitValid /\ PipeIdle /\ FeedbackIdle /\ AvatarIdle /\ ExportIdle /\ AppIdle /\ ConcIdle /\ ProtoIdle
SpecValid == InitSpecValid /\ [][CheckValid]_vars

\* direct calls of generate_feedback and generate_custom_feedback
NextFeedback == ChatCompletion \/ FeedbackReturn
InitSpecFeedback == InitFeedback /\ PipeIdle /\ ValidIdle /\ AvatarIdle /\ ExportIdle /\ AppIdle /\ ConcIdle /\ ProtoIdle
SpecFeedback == InitSpecFeedback /\ [][NextFeedback]_vars

\* direct calls of the avatar client and of get_avatar_video_status; the
\* thread inside wait_for_completion keeps running
NextAvatar ==
    \/ CallGenerateAvatarVideo
    \/ CallCreateReactionVideo
    \/ CallCheckVideoStatus
    \/ CallGetAvatarVideoStatus
    \/ WaitForCompletionStart
    \/ WaitForCompletionPoll
    \/ WaitForCompletionSleep
InitSpecAvatar == InitAvatar /\ ValidIdle /\ FeedbackIdle /\ ExportIdle /\ AppIdle /\ ConcIdle /\ ProtoIdle
SpecAvatar ==
    /\ InitSpecAvatar
    /\ [][NextAvatar]_vars
    /\ WF_vars(WaitForCompletionPoll)
    /\ WF_vars(WaitForCompletionSleep)

\* direct calls of generate_reaction_script
\* one browser session of the application; the pipeline steps are those of
\* the call AppAnalyze starts
NextApp ==
    \/ AppRun \/ AppSelectFile \/ AppAnalyze \/ AppAnalyzeDone \/ AppTryAgain
    \/ AppSaveResults \/ AppViewDetails \/ AppCheckVideoStatus
    \/ TempFileCreate \/ TranscribeAudio \/ TempFileCleanup \/ Gate
    \/ Feedback \/ Avatar \/ HandleException
InitSpecApp ==
    InitApp /\ ValidIdle /\ FeedbackIdle /\ AvatarIdle /\ ExportIdle /\ ConcIdle /\ ProtoIdle
SpecApp == InitSpecApp /\ [][NextApp]_vars

\* two calls of process_audio_blob on one scorer, their statements
\* interleaved in any order
NextConc == FirstCallSteps \/ SecondCallSteps
InitSpecConc ==
    InitConc /\ PipeIdle /\ ValidIdle /\ FeedbackIdle /\ AvatarIdle /\ ExportIdle
    /\ AppIdle /\ ProtoIdle
SpecConc == InitSpecConc /\ [][NextConc]_vars

\* one browser session of the prototype
NextProto == ProtoRun \/ ProtoSelect \/ ProtoShuffle \/ ProtoSubmit
InitSpecProto ==
    InitProto /\ PipeIdle /\ ValidIdle /\ FeedbackIdle /\ AvatarIdle /\ ExportIdle
    /\ AppIdle /\ ConcIdle
SpecProto == InitSpecProto /\ [][NextProto]_vars

InitSpecScript == InitScript /\ PipeIdle /\ ValidIdle /\ FeedbackIdle /\ ExportIdle /\ AppIdle /\ ConcIdle /\ ProtoIdle
SpecScript == InitSpecScript /\ [][CallGenerateReactionScript]_vars

(* ======================= properties of the pipeline ==================== *)
Steps == result.processing_steps
InSteps(label) == \E i \in 1..Len(Steps) : Steps[i] = label
LogHas(ev) == \E i \in 1..Len(log) : log[i].ev = ev
ResultKeys == {"timestamp", "audio_file", "context", "transcription", "feedback",
               "avatar_video", "success", "error", "processing_steps"}
AvatarLabels == {"avatar_started", "avatar_completed"}
\* the scorer holds an avatar generator that was given an API key
AvatarOn ==
    /\ scorer.avatar_generator # NoneRec
    /\ scorer.avatar_generator.api_key # None

\* C1: process_audio_file and process_audio_blob never raise: whatever the
\* three stages do, an exception of a client included, the call ends by
\* returning a Pipeline Result; after an exception the result has
\* success=false, error = the exception text and "pipeline_failed: <error>"
\* as last step, and the except clause changes no field filled before it
\* (transcription, feedback, avatar_video, the steps logged so far).
C1_Returned ==
    /\ pc # "raised"
    /\ pc = "done" =>
          /\ DOMAIN result = ResultKeys
          /\ exc # None =>
                /\ result.success = FALSE
                /\ result.error = exc
                /\ Last(Steps) = "pipeline_failed: " \o exc
C1_Kept ==
    pc = "except" =>
        /\ pc' = "done"
        /\ result'.transcription = result.transcription
        /\ result'.feedback = result.feedback
        /\ result'.avatar_video = result.avatar_video
        /\ result'.audio_file = result.audio_file
        /\ result'.context = result.context
        /\ Len(result'.processing_steps) = Len(Steps) + 1
        /\ SubSeq(result'.processing_steps, 1, Len(Steps)) = Steps
C1_NeverRaises == [](C1_Returned) /\ [][C1_Kept]_vars
\* the avatar client raised after transcription and feedback were stored
C1_Witness ==
    /\ pc = "done"
    /\ exc \in ClientErrors
    /\ result.feedback # NoneRec
    /\ InSteps("avatar_started")

\* the transcription result is known and is unsuccessful or not valid
BadTranscript ==
    /\ pc \in {"gate", "except", "done"}
    /\ tr # NoneRec
    /\ ~(tr.success /\ is_transcription_valid(tr, DefaultMinLength))

\* C2: when the transcription result has success=false or fails
\* is_transcription_valid, the call returns success=false, the steps hold
\* "transcription_started" but no "feedback_started" and no avatar label,
\* the feedback field stays None and neither the feedback client nor the
\* avatar client is called.
C2_ShortCircuit ==
    BadTranscript =>
        /\ ~LogHas("feedback.call")
        /\ ~LogHas("avatar.call")
        /\ result.feedback = NoneRec
        /\ InSteps("transcription_started")
        /\ ~InSteps("feedback_started")
        /\ \A l \in AvatarLabels : ~InSteps(l)
        /\ pc # "feedback" /\ pc # "avatar"
        /\ pc = "done" => /\ result.success = FALSE
                          /\ result.transcription = tr
\* a run returned after a successful transcription judged invalid
C2_Witness ==
    /\ pc = "done"
    /\ BadTranscript
    /\ tr.success

IsFallback(fb) ==
    /\ fb # NoneRec
    /\ fb.success = FALSE
    /\ \E i \in 1..Len(fallback_responses) :
          /\ fb.score = fallback_responses[i].score
          /\ fb.emojis = fallback_responses[i].emojis
          /\ fb.comment = fallback_responses[i].comment
          /\ fb.reasoning = fallback_responses[i].reasoning

\* C3: when the transcription is valid and the feedback client returns a
\* fallback (success=false), the run is not aborted: with an enabled avatar
\* generator the avatar client is called with exactly that fallback, and the
\* returned result has success=true and the fallback in its feedback field.
C3_ContinuesPastFeedbackFailure ==
    (result # NoneRec /\ result.feedback # NoneRec /\ ~result.feedback.success) =>
        /\ IsFallback(result.feedback)
        /\ pc \in {"avatar", "done"}
        /\ pc = "done" =>
              /\ result.success = TRUE
              /\ result.error = None
              /\ AvatarOn =>
                    /\ InSteps("avatar_started")
                    /\ \E i \in 1..Len(log) :
                          /\ log[i].ev = "avatar.call"
                          /\ log[i].feedback_data = result.feedback
\* a run with an enabled avatar generator returned after a fallback feedback
C3_Witness ==
    /\ pc = "done"
    /\ AvatarOn
    /\ result.feedback # NoneRec
    /\ ~result.feedback.success
    /\ LogHas("avatar.call")

StageOrder == <<"transcription_started", "transcription_completed", "feedback_started",
                "feedback_completed", "avatar_started", "avatar_completed">>
IsStageLabel(l) == \E k \in 1..Len(StageOrder) : StageOrder[k] = l
Rank(l) == CHOOSE k \in 1..Len(StageOrder) : StageOrder[k] = l

\* C4: the feedback client is called only after the transcriber returned
\* and its result was judged valid, the avatar client only after the
\* feedback client returned; the stage labels of processing_steps appear in
\* the fixed order transcription_started .. avatar_completed, each at most
\* once, and a <stage>_completed label always has its <stage>_started label
\* before it.
C4_StageOrder ==
    /\ \A i \in 1..Len(log) :
          /\ log[i].ev = "feedback.call" =>
                /\ \E j \in 1..(i - 1) : log[j].ev = "transcriber.return"
                /\ tr # NoneRec /\ tr.success
                /\ is_transcription_valid(tr, DefaultMinLength)
          /\ log[i].ev = "avatar.call" =>
                \E j \in 1..(i - 1) : log[j].ev = "feedback.return"
    /\ result # NoneRec =>
          /\ \A i, j \in 1..Len(Steps) :
                (i < j /\ IsStageLabel(Steps[i]) /\ IsStageLabel(Steps[j]))
                    => Rank(Steps[i]) < Rank(Steps[j])
          /\ \A j \in 1..Len(Steps) :
                (IsStageLabel(Steps[j]) /\ Rank(Steps[j]) % 2 = 0)
                    => \E i \in 1..(j - 1) : Steps[i] = StageOrder[Rank(Steps[j]) - 1]
\* a returned run that went through all three stages
C4_Witness ==
    /\ pc = "done"
    /\ \A k \in 1..Len(StageOrder) : InSteps(StageOrder[k])
    /\ LogHas("avatar.return")

\* C5: with avatar generation disabled or not configured, a run whose
\* transcription is valid returns success=true, the placeholder record with
\* status "disabled" in avatar_video, and exactly the five steps
\* transcription_started, transcription_completed, feedback_started,
\* feedback_completed, pipeline_completed.
C5_AvatarDisabledRun ==
    (pc = "done" /\ ~AvatarOn /\ tr # NoneRec
        /\ tr.success /\ is_transcription_valid(tr, DefaultMinLength)) =>
        /\ result.success = TRUE
        /\ result.avatar_video # NoneRec
        /\ result.avatar_video.status = "disabled"
        /\ Steps = <<"transcription_started", "transcription_completed",
                     "feedback_started", "feedback_completed", "pipeline_completed">>
        /\ ~LogHas("avatar.call")
\* a generator object exists but has no API key, and the run returned
C5_Witness ==
    /\ pc = "done"
    /\ scorer.avatar_generator # NoneRec
    /\ ~scorer.avatar_generator.enabled
    /\ result.success = TRUE
    /\ result.avatar_video.status = "disabled"

(* ================== properties of the transcription client ============= *)
\* the six filler phrases as the specification lists them
FillerPhrases == <<
    <<"t","h","a","n","k"," ","y","o","u"," ","f","o","r"," ","w","a","t","c","h","i","n","g">>,
    <<"t","h","a","n","k","s"," ","f","o","r"," ","w","a","t","c","h","i","n","g">>,
    <<"p","l","e","a","s","e"," ","s","u","b","s","c","r","i","b","e">>,
    <<"[","m","u","s","i","c","]">>,
    <<"[","a","p","p","l","a","u","s","e","]">>,
    <<".",".",".">> >>
PleaseSubscribe == FillerPhrases[3]
\* the trimmed text of the judged result
VText == Strip(vIn.tr.text)
\* the phrase occurs in the text, letter case ignored
Mentions(text, phrase) ==
    \E i \in 1..(Len(text) - Len(phrase) + 1) :
        \A j \in 1..Len(phrase) : LowerChar(text[i + j - 1]) = LowerChar(phrase[j])
MentionsFiller(text) == \E k \in 1..Len(FillerPhrases) : Mentions(text, FillerPhrases[k])

\* C8: for a result with success=true, is_transcription_valid returns false
\* when the trimmed text is shorter than min_length and true when it is at
\* least min_length long and holds no filler phrase; a text holding "please
\* subscribe" is rejected when under 50 characters (the bare phrase
\* included) and accepted when 50 characters or longer; a result with
\* success=false is always invalid.
C8_ValidityThresholds ==
    vDone =>
        /\ ~vIn.tr.success => vOut = FALSE
        /\ (vIn.tr.success /\ Len(VText) < vIn.min_length) => vOut = FALSE
        /\ (vIn.tr.success /\ Len(VText) >= vIn.min_length /\ ~MentionsFiller(VText))
              => vOut = TRUE
        /\ (vIn.tr.success /\ Mentions(VText, PleaseSubscribe) /\ Len(VText) < ShortTextLimit)
              => vOut = FALSE
        /\ (vIn.tr.success /\ VText = PleaseSubscribe) => vOut = FALSE
        /\ (vIn.tr.success /\ Len(VText) >= ShortTextLimit /\ Len(VText) >= vIn.min_length)
              => vOut = TRUE
\* "please subscribe" embedded in a text of 60 characters was accepted
C8_Witness ==
    /\ vDone
    /\ vIn.tr.success
    /\ Mentions(VText, PleaseSubscribe)
    /\ Len(VText) = 60
    /\ vOut = TRUE

\* C9: every one of the six filler phrases, in every letter casing, makes
\* is_transcription_valid reject a success=true transcript of at least
\* min_length and under 50 characters that contains it.
C9_FillerCaseInsensitive ==
    (vDone /\ vIn.tr.success /\ Len(VText) >= vIn.min_length
        /\ Len(VText) < ShortTextLimit /\ MentionsFiller(VText))
        => vOut = FALSE

(* ==================== properties of the feedback client ================ *)
\* the remote answer is a JSON object that breaks the feedback schema
BreaksSchema(response) ==
    /\ response.kind = "content"
    /\ response.valid_json
    /\ \/ "score" \notin DOMAIN response.data
       \/ "emojis" \notin DOMAIN response.data
       \/ "comment" \notin DOMAIN response.data
       \/ response.data.score < 100
       \/ response.data.score > 1000
       \/ Len(response.data.emojis) < 1
       \/ Len(response.data.emojis) > 20
       \/ Len(response.data.comment) > 100

\* C6: every generate_feedback result with success=true has
\* 1.0 <= score <= 10.0, emojis of length 1..20 and a comment of at most 100
\* characters; an answer that breaks one of these (score 11.0, say) or lacks
\* a required key comes back as a fallback with success=false, its values
\* never taken from the answer.
C6_SchemaValidation ==
    (fPc = "returned" /\ fOp = "generate_feedback") =>
        /\ fOut.success =>
              /\ fOut.score >= 100 /\ fOut.score <= 1000
              /\ Len(fOut.emojis) >= 1 /\ Len(fOut.emojis) <= 20
              /\ Len(fOut.comment) <= 100
        /\ BreaksSchema(fIn) =>
              /\ fOut.success = FALSE
              /\ IsFallback(fOut)
              /\ fOut.score \in {500, 600, 550}
              /\ fOut.raw_response = None
\* an answer with score 11.0 came back as a fallback
C6_Witness ==
    /\ fPc = "returned"
    /\ fOp = "generate_feedback"
    /\ fIn.kind = "content" /\ fIn.valid_json
    /\ {"score", "emojis", "comment"} \subseteq DOMAIN fIn.data
    /\ fIn.data.score = 1100
    /\ Len(fIn.data.emojis) = 3 /\ Len(fIn.data.comment) = 26
    /\ fOut.success = FALSE

\* the call of operation fOp fails on the remote outcome fIn: the remote call
\* raised, the content is no JSON, or the parsed object is not accepted
FeedbackFails ==
    \/ fIn.kind = "error"
    \/ ~fIn.valid_json
    \/ fOp = "generate_feedback" /\ BreaksSchema(fIn)
    \/ fOp = "generate_custom_feedback"
          /\ ~({"score", "emojis", "comment"} \subseteq DOMAIN fIn.data)

\* number of fallback records whose four fields the result carries
FallbackMatches(fb) ==
    Cardinality({i \in 1..Len(fallback_responses) :
        /\ fb.score = fallback_responses[i].score
        /\ fb.emojis = fallback_responses[i].emojis
        /\ fb.comment = fallback_responses[i].comment
        /\ fb.reasoning = fallback_responses[i].reasoning})

\* C7: on a JSON parse failure, a validation failure or any other error of
\* the remote call, generate_feedback and generate_custom_feedback return
\* success=false, raw_response None, an error message and the four fields of
\* exactly one of the three fallback records (scores 5.0, 6.0, 5.5); while
\* the failing call is still to return, each of the three can be the one.
C7_FallbackOnFailure ==
    /\ (fPc = "returned" /\ FeedbackFails) =>
          /\ fOut.success = FALSE
          /\ fOut.raw_response = None
          /\ fOut.error # None
          /\ DOMAIN fOut = {"score", "emojis", "comment", "reasoning",
                            "success", "error", "raw_response"}
          /\ FallbackMatches(fOut) = 1
          /\ fOut.score \in {500, 600, 550}
    /\ (fPc = "pending" /\ FeedbackFails) =>
          \A s \in {500, 600, 550} : ENABLED (FeedbackReturn /\ fOut'.score = s)
\* generate_custom_feedback fell back to the 5.5 record on a missing key
C7_Witness ==
    /\ fPc = "returned"
    /\ fOp = "generate_custom_feedback"
    /\ fIn.kind = "content" /\ fIn.valid_json
    /\ "comment" \notin DOMAIN fIn.data
    /\ fOut.success = FALSE
    /\ fOut.score = 550

(* ===================== properties of the temporary file ================ *)
\* transcribe_audio_blob has returned to the pipeline
BlobTranscriberReturned ==
    /\ kind = "blob"
    /\ pc \in {"gate", "feedback", "avatar", "except", "done"}

\* C10: after transcribe_audio_blob returns, on every exit path, the
\* temporary file it created no longer exists on disk.
C10_TempFileRemoved ==
    (BlobTranscriberReturned /\ tmp.name # 0) => tmp.name \notin disk

(* ============ properties of transcribe_audio / transcribe_audio_blob ==== *)
TranscriptionKeys == {"text", "language", "duration", "segments", "success", "error"}
\* the transcriber call of the running pipeline call has ended
TranscriberEnded == pc \in {"gate", "feedback", "avatar", "except", "done"}
LogCount(ev) == Cardinality({i \in 1..Len(log) : log[i].ev = ev})

\* C11: transcribe_audio and transcribe_audio_blob end by returning a
\* result, never by raising; a path that does not exist gives success=false
\* with no call of the remote API; a result with success=false has empty
\* text, no language, no duration, no segments and a non-empty error; a
\* result with success=true has error None; the remote API is called at
\* most once per transcriber call.
C11_FailuresAreData ==
    /\ TranscriberEnded =>
          /\ tr # NoneRec
          /\ LogCount("transcriber.return") = 1
          /\ DOMAIN tr = TranscriptionKeys
          /\ ~tr.success =>
                /\ tr.text = <<>>
                /\ tr.language = None
                /\ tr.duration = None
                /\ tr.segments = <<>>
                /\ tr.error # None
                /\ Len(tr.error) > 0
          /\ tr.success => tr.error = None
          /\ (kind = "file" /\ ~PathExists(result.audio_file)) =>
                /\ ~tr.success
                /\ LogCount("whisper_api.call") = 0
    /\ LogCount("whisper_api.call") <= 1
\* process_audio_file on a missing path returned, the remote API not called
C11_Witness ==
    /\ pc = "done"
    /\ kind = "file"
    /\ ~PathExists(result.audio_file)
    /\ ~tr.success
    /\ tr.error = "Audio file not found: missing.wav"
    /\ ~LogHas("whisper_api.call")

(* ==================== properties of the avatar client ================== *)
ClientOps == {"generate_avatar_video", "check_video_status", "wait_for_completion",
              "create_reaction_video"}
\* a call of operation `name` has returned
Returned(name) == aPc = "returned" /\ aOp.name = name
\* the generator under test was constructed without an API key
NoApiKey == gen # NoneRec /\ gen.api_key = None

\* C12: on a generator constructed without an API key, generate_avatar_video,
\* check_video_status, wait_for_completion and create_reaction_video each
\* return status "disabled" (not "error") and success=false, whatever their
\* arguments and whatever was called before; no HTTP request is sent, no
\* sleep happens and wait_for_completion never enters its loop.
C12_DisabledShortCircuit ==
    NoApiKey =>
        /\ aPc \in {"idle", "returned"}
        /\ now = 0
        /\ (aPc = "returned" /\ aOp.name \in ClientOps) =>
              /\ aOut.status = "disabled"
              /\ aOut.status # "error"
              /\ aOut.success = FALSE
              /\ aNet = <<>>
              /\ aSleeps = <<>>
\* a disabled wait_for_completion returned as the second call
C12_Witness ==
    /\ NoApiKey
    /\ aCalls = 2
    /\ Returned("wait_for_completion")
    /\ aOut.status = "disabled"
    /\ aOp.max_wait_time = 3

\* wait_for_completion runs or ran on an enabled generator
Waiting == aOp # NoneRec /\ aOp.name = "wait_for_completion" /\ gen.enabled
TimedOutText == "Video generation timed out after " \o ToString(aOp.max_wait_time) \o " seconds"
PollReported(status) == aPoll # NoneRec /\ aPoll.success /\ aPoll.status = status
EndedCompleted == PollReported("completed") /\ aOut = aPoll /\ aOut.success
EndedFailed == PollReported("failed") /\ ~aOut.success
EndedTimedOut ==
    /\ now - aStart >= aOp.max_wait_time
    /\ ~aOut.success
    /\ aOut.error = TimedOutText
EndedPollError == aPoll # NoneRec /\ ~aPoll.success /\ aOut = aPoll

\* C13 as stated: wait_for_completion on an enabled generator returns only
\* with one of three outcomes: a poll reported "completed" and that poll's
\* result is returned with success=true, a poll reported "failed" and a
\* failure is returned, or max_wait_time has elapsed and the failure names
\* max_wait_time seconds.
C13_ThreeOutcomes ==
    (Waiting /\ aPc = "returned") => (EndedCompleted \/ EndedFailed \/ EndedTimedOut)

C13_Outcomes ==
    (Waiting /\ aPc = "returned") =>
        (EndedCompleted \/ EndedFailed \/ EndedTimedOut \/ EndedPollError)
C13_KeepsPolling ==
    Waiting =>
        /\ (aPc = "loop" /\ now - aStart < aOp.max_wait_time) =>
              /\ Len(aNet') = Len(aNet) + 1
              /\ (aPoll'.success /\ aPoll'.status \notin {"completed", "failed"}) =>
                    (aPc' = "sleep" /\ aOut' = NoneRec)
        /\ aPc = "sleep" =>
              /\ aPc' = "loop"
              /\ now' = now + aOp.poll_interval
              /\ aSleeps' = Append(aSleeps, aOp.poll_interval)
              /\ aNet' = aNet
\* C13 (amended): wait_for_completion on an enabled generator always
\* returns; it returns only when a poll reported "completed" (that poll's
\* result, success=true), a poll reported "failed" (a failure), the poll
\* itself failed (that error result) or max_wait_time has elapsed (a failure
\* naming max_wait_time seconds); a successful poll reporting "generating",
\* "pending" or any other status is followed by a sleep of poll_interval and
\* the next loop test, which polls again while time remains.
C13_WaitTerminates ==
    /\ [](C13_Outcomes)
    /\ [][C13_KeepsPolling]_vars
    /\ ((Waiting /\ aPc \in {"loop", "sleep"}) ~> (aPc = "returned"))
\* the wait slept at least once and then returned a completed poll
C13_Witness ==
    /\ Waiting
    /\ aPc = "returned"
    /\ Len(aSleeps) >= 1
    /\ Len(aNet) >= 2
    /\ EndedCompleted

\* C14: wait_for_completion returns no later than max_wait_time after it
\* was called, for every sequence of statuses and every poll_interval.
C14_WithinMaxWait ==
    (Waiting /\ aPc = "returned") => now - aStart <= aOp.max_wait_time

AvatarStatuses == {"generating", "pending", "completed", "failed", "disabled", "error", "unknown"}
\* C15: the status of every result returned by the avatar client or by
\* get_avatar_video_status is one of generating, pending, completed, failed,
\* disabled, error, unknown; check_video_status reports "unknown" for a
\* remote status that is none of the recognized values.
C15_StatusValues ==
    (aPc = "returned") =>
        /\ aOut.status \in AvatarStatuses
        /\ (aOp.name \in {"check_video_status", "get_avatar_video_status"}
               /\ aOut.success
               /\ (\/ "status" \notin DOMAIN aOp.remote.data
                   \/ aOp.remote.data.status \notin {"generating", "pending", "completed", "failed"}))
              => aOut.status = "unknown"

\* the avatar id generate_avatar_video uses: the argument, else the default
ResolvedAvatarId == IF aOp.avatar_id # None THEN aOp.avatar_id ELSE gen.avatar_id
\* the generation request was answered 200 with a video id
PostGaveVideoId ==
    /\ aOp.remote.kind = "http"
    /\ aOp.remote.status_code = 200
    /\ aOp.remote.valid_json
    /\ aOp.remote.video_id # None

\* C16: generate_avatar_video on an enabled generator returns (never
\* raises): HTTP 200 with a video id gives success=true, that video_id and
\* status "generating"; HTTP 200 without a video id, another HTTP status, a
\* network or parse error, or no avatar id from the argument or the instance
\* gives success=false, video_id None, status "error" and an error text;
\* without an avatar id no request is sent, with one exactly one is.
C16_GenerateVideoOutcomes ==
    (Returned("generate_avatar_video") /\ gen.enabled) =>
        /\ (ResolvedAvatarId # None /\ PostGaveVideoId) =>
              /\ aOut.success = TRUE
              /\ aOut.video_id = aOp.remote.video_id
              /\ aOut.status = "generating"
        /\ ~(ResolvedAvatarId # None /\ PostGaveVideoId) =>
              /\ aOut.success = FALSE
              /\ aOut.video_id = None
              /\ aOut.status = "error"
              /\ aOut.error # None /\ Len(aOut.error) > 0
        /\ ResolvedAvatarId = None => aNet = <<>>
        /\ ResolvedAvatarId # None =>
              /\ Len(aNet) = 1
              /\ aNet[1].avatar_id = ResolvedAvatarId
              /\ aNet[1].input_text = aOp.script_text
\* no avatar id resolved: an error result and no request
C16_Witness ==
    /\ Returned("generate_avatar_video")
    /\ gen.enabled
    /\ ResolvedAvatarId = None
    /\ aOut.status = "error"
    /\ aNet = <<>>

(* ============ properties of get_processing_summary / save_results ====== *)
\* get_processing_summary was called with the result of the last call
Summarized == pc = "done" /\ summary.of = ncalls

\* C17: get_processing_summary returns a summary for every Pipeline Result
\* the two process methods return, failed ones with feedback or avatar_video
\* unset included: success, timestamp, audio_file, the number of steps and
\* error, a transcription projection exactly when transcription.success, a
\* feedback projection exactly when feedback.success, and an avatar
\* projection when an avatar record is present.
C17_SummaryForEveryResult ==
    Summarized =>
        /\ ~summary.out.raised
        /\ summary.out.value.success = result.success
        /\ summary.out.value.timestamp = result.timestamp
        /\ summary.out.value.audio_file = result.audio_file
        /\ summary.out.value.processing_steps = Len(Steps)
        /\ summary.out.value.error = result.error
        /\ ("transcription" \in DOMAIN summary.out.value)
              <=> (result.transcription # NoneRec /\ result.transcription.success)
        /\ ("feedback" \in DOMAIN summary.out.value)
              <=> (result.feedback # NoneRec /\ result.feedback.success)
        /\ result.avatar_video # NoneRec => "avatar_video" \in DOMAIN summary.out.value

\* save_results was called with the result of the last call
Saved == pc = "done" /\ saved.of = ncalls
\* the in-memory result as a Python value: an unset dictionary field is None
InMemory(results) ==
    [k \in DOMAIN results |->
        IF k \in {"transcription", "feedback", "avatar_video"} /\ results[k] = NoneRec
        THEN None ELSE results[k]]

\* C19: for every Pipeline Result the two process methods return,
\* save_results writes argument_results_<YYYYMMDD_HHMMSS>.json under the
\* output directory, which exists afterwards, and loading that file gives a
\* record with the keys and values of the in-memory result.
C19_RoundTrip ==
    Saved =>
        /\ ~saved.raised
        /\ saved.output_dir \in fs.dirs
        /\ saved.path = saved.output_dir \o "/argument_results_" \o saved.timestamp \o ".json"
        /\ saved.path \in DOMAIN fs.files
        /\ fs.files[saved.path].complete
        /\ JsonLoad(fs.files[saved.path].text) = InMemory(result)

(* ================= properties of generate_reaction_script ============== *)
Chars_Pause == <<" ","p","a","u","s","e"," ">>
Chars_Exclamation == <<" ","e","x","c","l","a","m","a","t","i","o","n"," ">>
Chars_GreatJob == <<"G","r","e","a","t"," ","j","o","b","!","!">>
Chars_GreatJobClean == <<"G","r","e","a","t"," ","j","o","b"," ","e","x","c","l","a","m","a","t","i","o","n"," "," ","e","x","c","l","a","m","a","t","i","o","n"," ">>
Chars_WaitReally == <<"W","a","i","t",".",".","."," ","r","e","a","l","l","y","?">>
Chars_WaitReallyClean == <<"W","a","i","t"," ","p","a","u","s","e"," "," ","r","e","a","l","l","y","?">>
\* score and comment the script is composed from
SaidScore == IF "score" \in DOMAIN aOp.feedback_data THEN aOp.feedback_data.score ELSE 500
SaidComment ==
    IF "comment" \in DOMAIN aOp.feedback_data THEN aOp.feedback_data.comment
    ELSE DefaultScriptComment
\* the intro of the band the score falls in
BandIntro ==
    CASE SaidScore >= 800 -> IntroWow
      [] SaidScore >= 600 /\ SaidScore < 800 -> IntroNotBad
      [] SaidScore >= 400 /\ SaidScore < 600 -> IntroHmm
      [] SaidScore < 400 -> IntroHonest
\* " I'm giving you a <score> out of 10 for that argument!"
ScriptEnding ==
    <<" ">> \o ScriptGiving \o <<" ">> \o ScoreChars(SaidScore) \o <<" ">> \o ScriptOutOf
\* the part of the script between "<intro> " and the ending
CommentPart ==
    SubSeq(aOut.script, Len(BandIntro) + 2, Len(aOut.script) - Len(ScriptEnding))

\* C18: the script is "<intro> <sanitized comment> I'm giving you a <score>
\* out of 10 for that argument!", the intro being the one of the score's
\* band (8.0, 6.0 and 4.0 in the higher band); the comment part holds no
\* "!" and no "...", and putting "!" back for every " exclamation " and
\* "..." for every " pause " gives the comment; "Great job!!" and
\* "Wait... really?" come out as the specification's examples say.
C18_ReactionScript ==
    Returned("generate_reaction_script") =>
        /\ Len(aOut.script) >= Len(BandIntro) + 1 + Len(ScriptEnding)
        /\ SubSeq(aOut.script, 1, Len(BandIntro) + 1) = BandIntro \o <<" ">>
        /\ SubSeq(aOut.script, Len(aOut.script) - Len(ScriptEnding) + 1, Len(aOut.script))
              = ScriptEnding
        /\ ~Contains(CommentPart, <<"!">>)
        /\ ~Contains(CommentPart, <<".", ".", ".">>)
        /\ Replace(Replace(CommentPart, Chars_Exclamation, <<"!">>), Chars_Pause, <<".", ".", ".">>)
              = SaidComment
        /\ SaidComment = Chars_GreatJob => CommentPart = Chars_GreatJobClean
        /\ SaidComment = Chars_WaitReally => CommentPart = Chars_WaitReallyClean
\* a score of exactly 8.0 with the comment "Great job!!"
C18_Witness ==
    /\ Returned("generate_reaction_script")
    /\ SaidScore = 800
    /\ SaidComment = Chars_GreatJob
    /\ SubSeq(aOut.script, 1, 4) = <<"W", "o", "w", "!">>


(* ------------------------------- C20 ----------------------------------- *)
\* main has run at least once in the session
AppRendered == session # NoneRec

\* the record/upload flow is on the page
FlowShown == {"recorder", "uploader"} \subseteq view

\* C20: while OPENAI_API_KEY is absent the session's scorer is None after
\* every run, the page shows the setup instructions and not the
\* record/upload flow, process_audio_blob is never called and no result is
\* stored in the session state; with OPENAI_API_KEY set the scorer exists
\* after every run and the flow is shown, whatever the HeyGen variables
\* hold, and the Analyze button is offered once a file is chosen
C20_MissingOpenAIKeyIsFatal ==
    /\ env.OPENAI_API_KEY = None =>
          /\ scorer = NoneRec
          /\ ncalls = 0 /\ appCalls = <<>> /\ pc = "idle"
          /\ AppRendered =>
                /\ view = SetupView
                /\ "setup_instructions" \in view /\ ~FlowShown
                /\ session.processing_results = NoneRec
                /\ ~session.audio_uploaded
    /\ (env.OPENAI_API_KEY # None /\ AppRendered) =>
          /\ scorer # NoneRec
          /\ FlowShown /\ "setup_instructions" \notin view
          /\ (upload # None) <=> ("button:upload_analyze" \in view)
          /\ scorer.enable_avatar
                <=> (env.HEYGEN_API_KEY # None /\ env.HEYGEN_AVATAR_ID # None)

\* without a HeyGen key a run went through and its result is stored and
\* displayed
C20_RunsWithoutHeyGenKey ==
    /\ env.OPENAI_API_KEY # None /\ env.HEYGEN_API_KEY = None
    /\ AppRendered /\ AppWaits
    /\ session.processing_results # NoneRec
    /\ session.processing_results.success
    /\ session.processing_results.avatar_video = DisabledPlaceholder
    /\ "avatar_disabled_note" \in view
    /\ Len(appCalls) = 1

\* the setup page, rendered for a session without the OpenAI key
C20_Witness ==
    env.OPENAI_API_KEY = None /\ AppRendered /\ view = SetupView

(* ------------------------------- C21 ----------------------------------- *)
\* the result the session holds, once a run stored one
StoredResult == session.processing_results
HasResult == AppRendered /\ StoredResult # NoneRec
Succeeded == HasResult /\ AppWaits /\ StoredResult.success
Failed == HasResult /\ AppWaits /\ ~StoredResult.success

\* C21: whenever the session holds a result with success = TRUE, whatever
\* feedback.success is, the page shows the transcript and the feedback
\* block (score "X/10", emojis, comment)
C21_SuccessShowsFeedback ==
    Succeeded => {"transcript", "feedback"} \subseteq view

(* ------------------------------- C22 ----------------------------------- *)
\* C22: whenever the session holds a failed result the page shows the
\* error text and offers Try Again, and the click clears the stored result
C22_FailedOffersTryAgain ==
    Failed => /\ "error:analysis_failed" \in view
              /\ "button:try_again" \in view
              /\ TryAgainClears(session)

(* ------------------------------- C23 ----------------------------------- *)
\* a call of process_audio_blob is under way
Processing == pc # "idle"
ResultsRendered == "results_header" \in view

\* a run starts only from the Analyze button, with a file in the uploader
\* and a scorer, and it is a call for that file
RunStartsFromAnalyze ==
    (ncalls' # ncalls \/ (~Processing /\ Processing')) =>
        /\ AppWaits /\ AppRendered
        /\ "button:upload_analyze" \in view
        /\ upload # None /\ scorer # NoneRec /\ scorer' = scorer
        /\ ncalls' = ncalls + 1 /\ Processing'
        /\ appCalls'[Len(appCalls')].call = "process_audio_blob"
        /\ appCalls'[Len(appCalls')].filename = upload
        /\ session' = session

\* a run ends with its result stored, in Succeeded or Failed
RunEndsStored ==
    (Processing /\ ~Processing') =>
        /\ pc = "done"
        /\ session'.processing_results = result
        /\ session'.audio_uploaded
        /\ result.success \in BOOLEAN
        /\ ResultsRendered'

\* Try Again from Succeeded clears the result and the flag, keeps the
\* scorer, and the page shows no results
TryAgainResets ==
    (Succeeded /\ AppTryAgain) =>
        /\ session'.processing_results = NoneRec
        /\ ~session'.audio_uploaded
        /\ scorer' = scorer
        /\ ~ResultsRendered'
        /\ AppWaits'

\* saving and viewing details leave the session state alone
ExportKeepsResult ==
    (AppSaveResults \/ AppViewDetails) => (session' = session /\ scorer' = scorer)

\* the stored result changes only at the end of a run or by Try Again
StoredChangesOnlyByCycle ==
    (AppRendered /\ session'.processing_results # session.processing_results) =>
        \/ (Processing /\ ~Processing')
        \/ (Succeeded /\ "button:try_again" \in view
              /\ session'.processing_results = NoneRec)

\* C23: the analysis cycle.  A run starts only from Analyze with a file
\* selected and a scorer, and ends with its result stored; Try Again from
\* Succeeded clears result and flag, keeps the scorer and shows no
\* results; Save Results and View Details change nothing that is stored
C23_AnalysisCycle ==
    [][/\ RunStartsFromAnalyze
       /\ RunEndsStored
       /\ TryAgainResets
       /\ ExportKeepsResult
       /\ StoredChangesOnlyByCycle]_vars

\* Try Again has acted on a stored result: a run was made, nothing is
\* stored any more, the scorer is still there
C23_Witness ==
    /\ AppRendered /\ AppWaits /\ ncalls >= 1
    /\ StoredResult = NoneRec /\ ~session.audio_uploaded
    /\ scorer # NoneRec /\ ~ResultsRendered

(* ------------------------------- C24 ----------------------------------- *)
\* the stored result holds an avatar job: success and a video id
HasAvatarJob ==
    /\ Succeeded
    /\ StoredResult.avatar_video.success
    /\ StoredResult.avatar_video.video_id # None

LastCall(cs) == cs[Len(cs)]
IsStatusCheck(c) == c.call = "get_avatar_video_status"

\* a step in which the session asks for the status of the video
StatusCheckStep ==
    /\ Len(appCalls') = Len(appCalls) + 1
    /\ IsStatusCheck(LastCall(appCalls'))

\* C24: while the stored result holds an avatar job the Check Video Status
\* button is offered, however often it was used; every check sends a
\* status request for the stored video id through get_avatar_video_status
\* and leaves the session state, the stored result and the scorer unchanged
C24_StatusPollingStateless ==
    /\ [](HasAvatarJob => "button:check_video" \in view)
    /\ [][StatusCheckStep =>
            /\ HasAvatarJob
            /\ LastCall(appCalls').video_id = StoredResult.avatar_video.video_id
            /\ LastCall(appCalls').request
                  = CheckStatusRequest(scorer.avatar_generator,
                                       StoredResult.avatar_video.video_id)
            /\ LastCall(appCalls').request # <<>>
            /\ session' = session /\ scorer' = scorer
            /\ HasAvatarJob']_vars

\* the status was asked twice in a row for the stored job, which is
\* still there, and the button is still offered
C24_Witness ==
    /\ HasAvatarJob
    /\ Len(appCalls) >= 3
    /\ IsStatusCheck(appCalls[Len(appCalls)])
    /\ IsStatusCheck(appCalls[Len(appCalls) - 1])
    /\ ~session.video_status_checked
    /\ "button:check_video" \in view

(* ------------------------------- C25 ----------------------------------- *)
CallIds == {1, 2}
Returned2(t) == calls[t].c.pc = "done"
\* the call's temporary file is written and not yet unlinked
TempFileLive(t) == calls[t].c.pc \in {"transcribe", "cleanup"}

\* C25: with the statements of two process_audio_blob calls on one scorer
\* interleaved in any order, each call returns the result it returns when
\* run alone (so nothing of the other call is in it), two temporary files
\* in use at the same time are different files, and no step changes the
\* scorer
C25_ConcurrentCallsSafe ==
    /\ [](\A t \in CallIds :
            Returned2(t) =>
               /\ calls[t].c.result = RunAlone(CallEntered, calls[t].inp, shScorer, {})
               /\ calls[t].c.result.audio_file = ConcFilenames[t])
    /\ []((TempFileLive(1) /\ TempFileLive(2)) =>
             /\ calls[1].c.tmp.path # calls[2].c.tmp.path
             /\ {calls[1].c.tmp.path, calls[2].c.tmp.path} \subseteq shDisk)
    /\ [][shScorer' = shScorer]_vars

\* both calls returned, one with success and one without, after their
\* temporary files existed side by side
C25_Witness ==
    /\ Returned2(1) /\ Returned2(2)
    /\ calls[1].c.result.success /\ ~calls[2].c.result.success
    /\ calls[1].c.tmp.path # 0 /\ calls[2].c.tmp.path # 0
    /\ calls[1].c.tmp.path # calls[2].c.tmp.path
    /\ shDisk = {}

(* ------------------------------- C26 ----------------------------------- *)
\* the value the avatar client returned in this run
AvatarReturnValue == log[CHOOSE i \in 1..Len(log) : log[i].ev = "avatar.return"].value
LastSteps(n) == SubSeq(Steps, Len(Steps) - n + 1, Len(Steps))

\* C26: with a configured and enabled avatar generator, a run that reaches
\* the avatar stage appends avatar_started and avatar_completed whether the
\* generator reports success or failure; a failure record (success=false,
\* status "error") is stored in avatar_video and the run still returns
\* success=true, no error, pipeline_completed as last step
C26_AvatarFailureDoesNotAbort ==
    (pc = "done" /\ AvatarAvailable(scorer) /\ InSteps("feedback_completed")) =>
        /\ LogHas("avatar.return")
        /\ result.avatar_video = AvatarReturnValue
        /\ (~result.avatar_video.success) => result.avatar_video.status = "error"
        /\ Len(Steps) >= 3
        /\ LastSteps(3) = <<"avatar_started", "avatar_completed", "pipeline_completed">>
        /\ result.success = TRUE
        /\ result.error = None

\* a run returned whose avatar generation failed
C26_Witness ==
    /\ pc = "done" /\ AvatarAvailable(scorer)
    /\ result.avatar_video # NoneRec
    /\ ~result.avatar_video.success
    /\ result.avatar_video.status = "error"
    /\ result.success = TRUE

(* ------------------------------- C27 ----------------------------------- *)
\* the value the feedback client returned in this run
FeedbackReturnValue == log[CHOOSE i \in 1..Len(log) : log[i].ev = "feedback.return"].value

\* what a run leaves in the fields other than audio_file and timestamp,
\* from the transcription result, the feedback result, the avatar outcome
\* and the context alone
OutcomeFields(transcription_result, feedback_result, avatar_result, context) ==
    IF ~GatePasses(transcription_result)
    THEN [context |-> context, transcription |-> transcription_result,
          feedback |-> NoneRec, avatar_video |-> NoneRec, success |-> FALSE,
          error |-> GateError(transcription_result),
          processing_steps |-> <<"transcription_started",
                                 "pipeline_failed: " \o GateError(transcription_result)>>]
    ELSE [context |-> context, transcription |-> transcription_result,
          feedback |-> feedback_result, avatar_video |-> avatar_result, success |-> TRUE,
          error |-> None,
          processing_steps |->
              <<"transcription_started", "transcription_completed", "feedback_started",
                "feedback_completed">>
              \o (IF avatar_result = DisabledPlaceholder THEN <<>>
                  ELSE <<"avatar_started", "avatar_completed">>)
              \o <<"pipeline_completed">>]
FieldsOf(r) ==
    [context |-> r.context, transcription |-> r.transcription, feedback |-> r.feedback,
     avatar_video |-> r.avatar_video, success |-> r.success, error |-> r.error,
     processing_steps |-> r.processing_steps]

\* C27: the result of process_audio_file and the result of
\* process_audio_blob have the same processing_steps, success, error,
\* transcription, feedback and avatar_video whenever transcription result,
\* feedback result, avatar outcome and context are the same: these fields
\* are one function of those four, whichever method ran; audio_file is the
\* path or the filename
C27_FileBlobEquivalent ==
    pc = "done" =>
        /\ FieldsOf(result) =
              OutcomeFields(tr,
                            IF LogHas("feedback.return") THEN FeedbackReturnValue ELSE NoneRec,
                            IF LogHas("avatar.return") THEN AvatarReturnValue
                            ELSE DisabledPlaceholder,
                            result.context)
        /\ kind = "file" => result.audio_file \in AudioPaths
        /\ kind = "blob" => result.audio_file = BlobFilename

\* a blob run returned with all three stages done
C27_Witness ==
    /\ pc = "done" /\ kind = "blob"
    /\ result.success = TRUE
    /\ LogHas("avatar.return")
    /\ InSteps("avatar_completed")

(* ------------------------------- C28 ----------------------------------- *)
LastStep == Steps[Len(Steps)]

\* C28: a returned result has exactly one terminal marker and it is the
\* last step: pipeline_completed, or pipeline_failed: followed by the error
\* field; success holds exactly when the marker is pipeline_completed and
\* exactly when error is None, and then transcription.success holds and
\* feedback and avatar_video are set
C28_TerminalMarker ==
    pc = "done" =>
        /\ Len(Steps) >= 1
        /\ \A i \in 1..(Len(Steps) - 1) : IsStageLabel(Steps[i])
        /\ ~IsStageLabel(LastStep)
        /\ result.success \in BOOLEAN
        /\ result.success <=> (LastStep = "pipeline_completed")
        /\ result.success <=> (result.error = None)
        /\ result.success =>
              /\ result.transcription # NoneRec /\ result.transcription.success
              /\ result.feedback # NoneRec
              /\ result.avatar_video # NoneRec
        /\ (~result.success) =>
              /\ result.error # None
              /\ LastStep = "pipeline_failed: " \o result.error

\* a failed run returned after the feedback stage had started
C28_Witness ==
    /\ pc = "done"
    /\ ~result.success
    /\ InSteps("feedback_started")
    /\ LastStep = "pipeline_failed: " \o result.error

(* ------------------------------- C29 ----------------------------------- *)
\* a step of wait_for_completion in which a poll was made
PollStep == Waiting /\ aPc = "loop" /\ Len(aNet') = Len(aNet) + 1

\* C29: when a poll of wait_for_completion comes back with success=false
\* the call returns that result in the same step, without a sleep and
\* without another poll, whatever time is left; when a poll reports
\* "failed" the call returns an error record: status "error", no video id
C29_StopsAtFailedPoll ==
    /\ [][(PollStep /\ ~aPoll'.success) =>
             /\ aPc' = "returned"
             /\ aOut' = aPoll'
             /\ aOut'.status = "error"
             /\ aSleeps' = aSleeps]_vars
    /\ []((Waiting /\ aPc = "returned" /\ aPoll # NoneRec /\ ~aPoll.success) =>
             /\ aOut = aPoll
             /\ Len(aNet) = Len(aSleeps) + 1)
    /\ []((Waiting /\ aPc = "returned" /\ PollReported("failed")) =>
             /\ aOut = get_error_response("Video generation failed")
             /\ aOut.status = "error" /\ aOut.video_id = None /\ ~aOut.success)

\* the second poll failed before max_wait_time had elapsed and the call
\* returned its result
C29_Witness ==
    /\ Waiting /\ aPc = "returned"
    /\ EndedPollError
    /\ Len(aNet) = 2 /\ Len(aSleeps) = 1
    /\ now - aStart < aOp.max_wait_time

(* ------------------------------- C30 ----------------------------------- *)
CharacterSet == DOMAIN CHARACTER_PROMPTS
Cached(c) == questions[c] # None

\* C30: a cached question is one of its character's prompts and is the
\* one shown; a cached question stays cached, and it changes only in a
\* shuffle step and only for the selected character; a submit step changes
\* no cached question; no step of the prototype calls the scorer
C30_QuestionCache ==
    /\ [](\A c \in CharacterSet : Cached(c) => questions[c] \in Choices(c))
    /\ [](page # NoneRec =>
             /\ Cached(character)
             /\ page.challenge = questions[character])
    /\ [][\A c \in CharacterSet :
             Cached(c) =>
                /\ Cached(c)'
                /\ (questions'[c] # questions[c]) => (ProtoShuffle /\ c = character)]_vars
    /\ [][ProtoSubmit => questions' = questions]_vars
    /\ [](pc = "off" /\ ncalls = 0 /\ appCalls = <<>> /\ calls = <<>>)

\* every character has its question cached, the user is back at the
\* first one and has submitted
C30_Witness ==
    /\ page # NoneRec
    /\ \A c \in CharacterSet : Cached(c)
    /\ character = Characters[1]
    /\ page.submitted
    /\ page.question_info = questions[character]
====
